---- MODULE Spec2Model ----
(***************************************************************************)
(* The connection resilience engine of react-native-nitro-sse, modelled    *)
(* from ios/NitroSse.swift (class NitroSse and its SseHandler) with the    *)
(* error decision of the Android implementation beside it.                 *)
(*                                                                         *)
(* Every operation of the engine is a block submitted to the serial queue  *)
(* sseQueue; the queue runs the blocks one at a time in submission order.  *)
(* A transport callback first compares its source with parent.eventSource  *)
(* on the transport's own thread and only then submits its block; a timer  *)
(* (asyncAfter) submits its block when its deadline passes.                *)
(***************************************************************************)
EXTENDS Integers, Sequences, FiniteSets, Bags, TLC

(* ---------------- bounds of the model ---------------- *)
\* host and lifecycle calls the environment makes
MaxCalls == 4
\* transport callbacks that pass the identity check
MaxCallbacks == 2
\* blocks submitted to sseQueue and not yet run
MaxQueue == 2
\* the same budgets for the buffer scenarios (SpecBuffer)
BufCalls == 3
BufCallbacks == 3
\* and for the reconnect scenarios (SpecReconnect)
LiveCalls == 2
LiveCallbacks == 1
\* and for the control scenarios (SpecControl)
CtlCalls == 3
CtlCallbacks == 2
\* and for the request scenarios (SpecRequest)
ReqCalls == 3
ReqCallbacks == 1
\* and for the Android scenarios (SpecAndroid)
DroidCalls == 3
DroidCallbacks == 3
\* largest backoff counter the error decision is probed with
MaxProbeCounter == 5

(* ---------------- program constants ---------------- *)
\* private let defaultRetryDelay: TimeInterval = 3.0 (milliseconds here)
DefaultRetryDelayMs == 3000
\* private let baseBackoffDelay: TimeInterval = 2.0
BaseBackoffDelayMs == 2000
\* private let maxBackoffDelay: TimeInterval = 30.0
MaxBackoffDelayMs == 30000
\* let safeDelay = max(delay, 2.0)
SafeDelayFloorMs == 2000

\* eventSource = nil
NoSource == 0
\* no usable Retry-After hint (extractRetryAfterSeconds returns nil)
NoHint == -1

\* lastErrorTime = nil
NoTime == 0
\* lastErrorCode = nil
NoErrorCode == [domain |-> "<nil>", code |-> 0]
\* lastProcessedId = nil
NoId == "<nil>"
\* no Last-Event-ID header on a request
NoResumeHeader == "<none>"
\* header maps the host configures, none of them with a Last-Event-ID entry of its own
HeaderMaps == {"h0", "h1", "h2"}
\* the header map of the configuration given to setup
SetupHeaders == "h0"
\* ids the host passes to setLastProcessedId
LastIds == {"", "42", "43"}

\* batchingIntervalMs values of the configuration given to setup
BatchIntervals == {0, 100}
\* maxBufferSize values of the configuration given to setup
Capacities == {1, 2}

VARIABLES
  \* ---- fields of class NitroSse ----
  config,                       \* the SseConfig given to setup
  isRunning,
  eventSource,                  \* identity of the current EventSource, NoSource when nil
  eventBuffer,
  isFlushPending,
  backoffCounter,
  wasRunningBeforeHibernation,
  reconnectCount,
  totalBytesReceived,
  lastErrorTime,                \* NoTime when nil
  lastErrorCode,                \* NoErrorCode when nil
  lastProcessedId,
  \* ---- the engine's surroundings ----
  requests,                     \* requests[i]: what instance i was created with
  created,                      \* EventSource instances created so far (identities 1..created)
  stopped,                      \* instances on which the engine has called stop()
  ended,                        \* Android: instances that reported onFailure or onClosed
  queue,                        \* blocks submitted to sseQueue, not yet run
  timers,                       \* bag of asyncAfter blocks whose deadline has not passed
  delivered,                    \* batches handed to onEventsCallback, in order
  worker,                       \* what the thread of sseQueue is doing
  pusher,                       \* where a transport thread is in pushEventToBuffer (Android)
  eventsToEmit,                 \* the local of a flushBufferToJs in progress (Android)
  lastRead,                     \* the latest getStats() / isConnected() of the host
  \* ---- the factory createNitroSse and the engines it has handed out ----
  objects,                      \* objects[i]: the state of the i-th native NitroSse object
  handles,                      \* what the createNitroSse() calls returned, in order
  lastCreate,                   \* outcome of the latest createNitroSse() call
  \* ---- history ----
  pushed,                       \* records pushed so far; the n-th has seq n
  evicted,                      \* seqs removed by the eviction loop
  cleared,                      \* seqs removed by stopInternal
  drainedUpTo,                  \* value of pushed when the buffer was last drained
  restartSrc,                   \* instance created by the latest restart()
  fatalSrc,                     \* instance current when a fatal error was last processed
  haltedBy,                     \* "stop" / "fatal" since the last host start()/restart()
  win,                          \* the batching window opened by the latest scheduling push
  \* ---- environment budget ----
  callsLeft,
  callbacksLeft,
  \* ---- the error decision applied to one input (SpecClassify) ----
  probe,
  verdict

vars == <<config, isRunning, eventSource, eventBuffer, isFlushPending, backoffCounter,
          wasRunningBeforeHibernation, reconnectCount, totalBytesReceived,
          lastErrorTime, lastErrorCode, lastProcessedId, requests,
          created, stopped, ended, queue, timers, delivered, worker, lastRead, pusher, eventsToEmit,
          objects, handles, lastCreate,
          pushed, evicted, cleared, drainedUpTo, restartSrc, fatalSrc, haltedBy, win,
          callsLeft, callbacksLeft, probe, verdict>>

(* ---------------- the state as one record ---------------- *)
Cur ==
  [config |-> config, isRunning |-> isRunning, eventSource |-> eventSource, eventBuffer |-> eventBuffer,
   isFlushPending |-> isFlushPending, backoffCounter |-> backoffCounter,
   wasRunningBeforeHibernation |-> wasRunningBeforeHibernation,
   reconnectCount |-> reconnectCount, totalBytesReceived |-> totalBytesReceived,
   lastErrorTime |-> lastErrorTime, lastErrorCode |-> lastErrorCode,
   lastProcessedId |-> lastProcessedId, requests |-> requests,
   created |-> created, stopped |-> stopped, ended |-> ended, queue |-> queue, timers |-> timers,
   delivered |-> delivered, worker |-> worker, lastRead |-> lastRead,
   pusher |-> pusher, eventsToEmit |-> eventsToEmit,
   objects |-> objects, handles |-> handles, lastCreate |-> lastCreate,
   pushed |-> pushed, evicted |-> evicted, cleared |-> cleared,
   drainedUpTo |-> drainedUpTo, restartSrc |-> restartSrc, fatalSrc |-> fatalSrc,
   haltedBy |-> haltedBy, win |-> win]

\* the state after a step is s; s is evaluated once
Commit(s) ==
  \E next \in {s} :
    /\ isRunning' = next.isRunning
    /\ eventSource' = next.eventSource
    /\ eventBuffer' = next.eventBuffer
    /\ isFlushPending' = next.isFlushPending
    /\ backoffCounter' = next.backoffCounter
    /\ wasRunningBeforeHibernation' = next.wasRunningBeforeHibernation
    /\ reconnectCount' = next.reconnectCount
    /\ totalBytesReceived' = next.totalBytesReceived
    /\ lastErrorTime' = next.lastErrorTime
    /\ lastErrorCode' = next.lastErrorCode
    /\ lastProcessedId' = next.lastProcessedId
    /\ requests' = next.requests
    /\ created' = next.created
    /\ stopped' = next.stopped
    /\ ended' = next.ended
    /\ queue' = next.queue
    /\ timers' = next.timers
    /\ delivered' = next.delivered
    /\ worker' = next.worker
    /\ pusher' = next.pusher
    /\ eventsToEmit' = next.eventsToEmit
    /\ lastRead' = next.lastRead
    /\ objects' = next.objects
    /\ handles' = next.handles
    /\ lastCreate' = next.lastCreate
    /\ pushed' = next.pushed
    /\ evicted' = next.evicted
    /\ cleared' = next.cleared
    /\ drainedUpTo' = next.drainedUpTo
    /\ restartSrc' = next.restartSrc
    /\ fatalSrc' = next.fatalSrc
    /\ haltedBy' = next.haltedBy
    /\ win' = next.win

(* ---------------- helpers ---------------- *)
Min(a, b) == IF a <= b THEN a ELSE b
Max(a, b) == IF a >= b THEN a ELSE b

SeqsOf(buf) == {buf[i].seq : i \in 1..Len(buf)}

RECURSIVE Flatten(_)
Flatten(batches) ==
  IF batches = <<>> THEN <<>> ELSE Head(batches) \o Flatten(Tail(batches))

NoWin == [open |-> FALSE, stale |-> 0, first |-> 0]

Block(op, src, status, hint, bytes, origin) ==
  [op |-> op, src |-> src, status |-> status, hint |-> hint, bytes |-> bytes,
   origin |-> origin, arg |-> ""]

HostBlock(op) == Block(op, NoSource, 0, NoHint, 0, "host")
\* a host call with an argument: setLastProcessedId(id:), updateHeaders(headers:)
HostArgBlock(op, arg) == [HostBlock(op) EXCEPT !.arg = arg]
TimerBlock(kind, src) == Block(kind, src, 0, NoHint, 0, "timer")

FlushTimer == TimerBlock("flushTimer", NoSource)

Submit(s, blk) == [s EXCEPT !.queue = Append(@, blk)]
\* the environment submits a block only while fewer than MaxQueue are waiting
QueueHasRoom == Len(queue) < MaxQueue
Schedule(s, blk) == [s EXCEPT !.timers = @ (+) SetToBag({blk})]

\* flush timers outstanding: waiting for their deadline, or submitted and not yet run
FlushTimersOutstanding(s) ==
  CopiesIn(FlushTimer, s.timers)
    + Cardinality({i \in 1..Len(s.queue) : s.queue[i] = FlushTimer})

(* ---------------- the event buffer ---------------- *)
\* a mutant of EvictLoop: the loop tests > instead of >=
RECURSIVE EvictLoop_OffByOne(_, _)
EvictLoop_OffByOne(buf, bufferCapacity) ==
  IF Len(buf) > bufferCapacity /\ buf # <<>>
  THEN EvictLoop_OffByOne(Tail(buf), bufferCapacity)
  ELSE buf

\* while eventBuffer.count >= bufferCapacity { eventBuffer.removeFirst() }, for the
\* capacities >= 1 of Capacities; the removal from an empty buffer that a capacity <= 0
\* reaches is EvictLoopFaults
RECURSIVE EvictLoop(_, _)
EvictLoop(buf, bufferCapacity) ==
  IF Len(buf) >= bufferCapacity /\ buf # <<>>
  THEN EvictLoop(Tail(buf), bufferCapacity)
  ELSE buf

\* a mutant of FlushEventsToJs: the batch is handed over but the buffer is not emptied
FlushEventsToJs_KeepsBuffer(s) ==
  IF s.eventBuffer = <<>>
  THEN [s EXCEPT !.isFlushPending = FALSE]
  ELSE [s EXCEPT !.delivered = Append(@, s.eventBuffer),
                 !.isFlushPending = FALSE,
                 !.drainedUpTo = s.pushed]

\* a mutant of FlushEventsToJs: the guard on the empty buffer is missing
FlushEventsToJs_NoEmptyGuard(s) ==
  [s EXCEPT !.delivered = Append(@, s.eventBuffer),
            !.eventBuffer = <<>>,
            !.isFlushPending = FALSE,
            !.drainedUpTo = s.pushed]

\* flushEventsToJs(): drain the buffer into one callback invocation
FlushEventsToJs(s) ==
  IF s.eventBuffer = <<>>
  THEN [s EXCEPT !.isFlushPending = FALSE]
  ELSE [s EXCEPT !.delivered = Append(@, s.eventBuffer),
                 !.eventBuffer = <<>>,
                 !.isFlushPending = FALSE,
                 !.drainedUpTo = s.pushed]

\* a mutant of FlushesImmediately: the test is < 0
FlushesImmediately_Strict(batchIntervalMs) == batchIntervalMs < 0

\* whether pushEventToBuffer flushes at once: batchIntervalMs <= 0
FlushesImmediately(batchIntervalMs) == batchIntervalMs <= 0

\* pushEventToBuffer(event)
PushEventToBuffer(s, type, message) ==
  LET event == [type |-> type, seq |-> s.pushed + 1, message |-> message]
      kept == EvictLoop(s.eventBuffer, s.config.maxBufferSize)
      s1 == [s EXCEPT !.eventBuffer = Append(kept, event),
                      !.pushed = @ + 1,
                      !.evicted = @ \cup (SeqsOf(s.eventBuffer) \ SeqsOf(kept)),
                      !.win = IF @.open /\ Len(kept) < Len(s.eventBuffer)
                              THEN NoWin ELSE @]
  IN IF FlushesImmediately(s.config.batchingIntervalMs)
     THEN FlushEventsToJs(s1)
     ELSE IF ~s1.isFlushPending
     THEN Schedule([s1 EXCEPT !.isFlushPending = TRUE,
                              !.win = [open |-> TRUE,
                                       stale |-> FlushTimersOutstanding(s),
                                       first |-> event.seq]],
                   FlushTimer)
     ELSE s1

(* ---------------- connection management ---------------- *)
\* eventSource?.stop()
StopTransport(s) ==
  IF s.eventSource = NoSource THEN s
  ELSE [s EXCEPT !.stopped = @ \cup {s.eventSource}]

\* a mutant of RequestOf: the test for the empty id is missing
RequestOf_EmptyIdSent(headers, lastId) ==
  [headers |-> headers,
   lastEventId |-> IF lastId # NoId THEN lastId ELSE NoResumeHeader]

\* esConfig.headers = config.headers ?? [:], then Last-Event-ID = lastProcessedId when
\* that is neither nil nor empty
RequestOf(headers, lastId) ==
  [headers |-> headers,
   lastEventId |-> IF lastId # NoId /\ lastId # "" THEN lastId ELSE NoResumeHeader]

\* establishConnection(): a new EventSource becomes the current one and is started
EstablishConnection(s) ==
  [s EXCEPT !.created = @ + 1, !.eventSource = s.created + 1,
            !.requests = Append(@, RequestOf(s.config.headers, s.lastProcessedId))]

\* stopInternal()
StopInternal(s) ==
  LET s1 == StopTransport(s)
  IN [s1 EXCEPT !.isRunning = FALSE,
                !.eventSource = NoSource,
                !.backoffCounter = 0,
                !.cleared = @ \cup SeqsOf(s.eventBuffer),
                !.drainedUpTo = s.pushed,
                !.eventBuffer = <<>>,
                !.isFlushPending = FALSE,
                !.win = NoWin]

\* a mutant of ScheduleAutomaticReconnect: a clean close counts as a failure
ScheduleAutomaticReconnect_CountsCloses(s, isError) ==
  LET s1 == StopTransport(s)
      s2 == [s1 EXCEPT !.backoffCounter = @ + 1]
  IN Schedule(s2, TimerBlock("autoTimer", s.eventSource))

\* scheduleAutomaticReconnect(isError:)
ScheduleAutomaticReconnect(s, isError) ==
  LET s1 == StopTransport(s)
      s2 == IF isError THEN [s1 EXCEPT !.backoffCounter = @ + 1] ELSE s1
  IN Schedule(s2, TimerBlock("autoTimer", s.eventSource))

\* scheduleAutomaticReconnectWithFixedDelay(delay); the block captures no source,
\* the src written here is history
ScheduleAutomaticReconnectWithFixedDelay(s) ==
  Schedule(StopTransport(s), TimerBlock("fixedTimer", s.eventSource))

\* a mutant of AutoTimerGuard: the identity test is inverted
AutoTimerGuard_Inverted(s, currentSource) == s.isRunning /\ s.eventSource # currentSource

\* guard of the block scheduled by scheduleAutomaticReconnect
AutoTimerGuard(s, currentSource) == s.isRunning /\ s.eventSource = currentSource

\* guard of the block scheduled by scheduleAutomaticReconnectWithFixedDelay
FixedTimerGuard(s) == s.isRunning

(* ---------------- error classification ---------------- *)
\* a mutant of ErrorDecision: the 429 stop is tested before the Retry-After branch
ErrorDecision_RateLimitFirst(statusCode, retryAfter) ==
  IF statusCode = 401 \/ statusCode = 403 \/ statusCode = 400 THEN "Fatal"
  ELSE IF statusCode = 429 THEN "RateLimited"
  ELSE IF (statusCode = 429 \/ statusCode = 503) /\ retryAfter # NoHint THEN "ServerBusy"
  ELSE "Transient"

\* SseHandler.onError: the branch taken for a status code and a Retry-After hint
ErrorDecision(statusCode, retryAfter) ==
  IF statusCode = 401 \/ statusCode = 403 \/ statusCode = 400 THEN "Fatal"
  ELSE IF (statusCode = 429 \/ statusCode = 503) /\ retryAfter # NoHint THEN "ServerBusy"
  ELSE IF statusCode = 429 THEN "RateLimited"
  ELSE "Transient"

\* Android sseListener.onFailure: the same three tests, then
\* isHandshakeError = response == null || response.code != 200 (statusCode -1: no response)
AndroidErrorDecision(statusCode, retryAfterMillis) ==
  IF statusCode = 401 \/ statusCode = 403 \/ statusCode = 400 THEN "Fatal"
  ELSE IF (statusCode = 429 \/ statusCode = 503) /\ retryAfterMillis # NoHint THEN "ServerBusy"
  ELSE IF statusCode = 429 THEN "RateLimited"
  ELSE IF statusCode # 200 THEN "Transient"
  ELSE "StreamLost"

(* ---------------- reconnect delays, in milliseconds ---------------- *)
\* the random draws, at the ends and the middle of their ranges
\* Double.random(in: 0.5...2.0), in ms
IosJitterMs(draw) == CASE draw = "lo" -> 500 [] draw = "mid" -> 1250 [] OTHER -> 2000
\* Double.random(in: 0...1), in thousandths
IosUnit(draw) == CASE draw = "lo" -> 0 [] draw = "mid" -> 500 [] OTHER -> 1000
\* 500 + Random.nextInt(1500)
AndroidJitterMs(draw) == CASE draw = "lo" -> 500 [] draw = "mid" -> 1250 [] OTHER -> 1999
\* Random.nextDouble(), in thousandths
AndroidUnit(draw) == CASE draw = "lo" -> 0 [] draw = "mid" -> 500 [] OTHER -> 999

\* a mutant of BackoffBase: the cap is missing
BackoffBase_NoCap(exponent) == BaseBackoffDelayMs * 2 ^ exponent

\* min(baseBackoffDelay * pow(2.0, exponent), maxBackoffDelay), a Double: the power
\* never wraps, and from exponent 4 on the product is above the cap
BackoffBase(exponent) ==
  IF exponent >= 4 THEN MaxBackoffDelayMs
  ELSE Min(BaseBackoffDelayMs * 2 ^ exponent, MaxBackoffDelayMs)

\* Kotlin's 1 shl n on a 32-bit Int: the shift distance is n mod 32, and 1 shl 31 is
\* the most negative Int
ShlInt(n) ==
  LET k == n % 32 IN IF k = 31 THEN (-(2 ^ 30)) - 2 ^ 30 ELSE 2 ^ k

\* Math.min(baseBackoffDelayMs * (1 shl backoffCounter), maxBackoffDelayMs), a Long
\* product. A product at or above the cap is the cap; the negative product of 1 shl 31
\* lies below the integers TLC handles and is written -baseBackoffDelayMs: every use
\* floors a negative delay alike.
AndroidBackoffBase(n) ==
  LET v == ShlInt(n)
  IN IF v < 0 THEN -BaseBackoffDelayMs
     ELSE IF v > MaxBackoffDelayMs \div BaseBackoffDelayMs THEN MaxBackoffDelayMs
     ELSE Min(BaseBackoffDelayMs * v, MaxBackoffDelayMs)

\* base * (0.5 + random), truncated to ms
ExponentialDelayMs(base, unit) == (base * (500 + unit)) \div 1000

\* a mutant of IdleDelayMs: the factor is 0.5 + random
IdleDelayMs_Wide(unit) == (DefaultRetryDelayMs * (500 + unit)) \div 1000

\* defaultRetryDelay * (0.8 + random * 0.4)
IdleDelayMs(unit) == (DefaultRetryDelayMs * (800 + (unit * 400) \div 1000)) \div 1000

\* max(delay, 2.0)
SafeDelay(delayMs) == Max(delayMs, SafeDelayFloorMs)

NoVerdict == [class |-> "none", schedule |-> "none", delayMs |-> 0, counter |-> 0]

\* SseHandler.onError for one error: the class, the schedule it reconnects on, the
\* delay it schedules and the backoff counter it leaves
IosErrorVerdict(statusCode, retryAfter, n, draw) ==
  LET decision == ErrorDecision(statusCode, retryAfter)
  IN CASE decision = "Fatal" \/ decision = "RateLimited" ->
            [class |-> "Fatal", schedule |-> "none", delayMs |-> 0, counter |-> 0]
       [] decision = "ServerBusy" ->
            [class |-> "ServerBusy", schedule |-> "retryAfter",
             delayMs |-> retryAfter + IosJitterMs(draw), counter |-> n]
       [] OTHER ->
            [class |-> "Transient", schedule |-> "exponential",
             delayMs |-> SafeDelay(ExponentialDelayMs(BackoffBase(n), IosUnit(draw))),
             counter |-> n + 1]

\* sseListener.onFailure for one failure
AndroidErrorVerdict(statusCode, retryAfterMillis, n, draw) ==
  LET decision == AndroidErrorDecision(statusCode, retryAfterMillis)
  IN CASE decision = "Fatal" \/ decision = "RateLimited" ->
            [class |-> "Fatal", schedule |-> "none", delayMs |-> 0, counter |-> 0]
       [] decision = "ServerBusy" ->
            [class |-> "ServerBusy", schedule |-> "retryAfter",
             delayMs |-> retryAfterMillis + AndroidJitterMs(draw), counter |-> n]
       [] decision = "StreamLost" ->
            [class |-> "Transient", schedule |-> "idle",
             delayMs |-> SafeDelay(IdleDelayMs(AndroidUnit(draw))), counter |-> n]
       [] OTHER ->
            [class |-> "Transient", schedule |-> "exponential",
             delayMs |-> SafeDelay(ExponentialDelayMs(AndroidBackoffBase(n),
                                                      AndroidUnit(draw))),
             counter |-> n + 1]

\* SseHandler.onClosed with scheduleAutomaticReconnect(isError: false): the delay it
\* schedules and the backoff counter it leaves
IosCloseVerdict(n, draw) ==
  [class |-> "CleanClose", schedule |-> "idle",
   delayMs |-> SafeDelay(IdleDelayMs(IosUnit(draw))), counter |-> n]

\* sseListener.onClosed: the delay is not floored
AndroidCloseVerdict(n, draw) ==
  [class |-> "CleanClose", schedule |-> "idle",
   delayMs |-> IdleDelayMs(AndroidUnit(draw)), counter |-> n]

(* ---------------- what the environment can submit ---------------- *)
HostOps == {"start", "stop", "restart", "flush"}
LifecycleOps == {"background", "foreground"}

\* callbacks of the transport: op, status code and Retry-After hint of an error,
\* utf8 size of a message (data + event type + id) or comment
CallbackInputs ==
  {[op |-> "onOpened", status |-> 0, hint |-> NoHint, bytes |-> 0],
   [op |-> "onMessage", status |-> 0, hint |-> NoHint, bytes |-> 2],
   [op |-> "onComment", status |-> 0, hint |-> NoHint, bytes |-> 1],
   [op |-> "onClosed", status |-> 0, hint |-> NoHint, bytes |-> 0],
   [op |-> "onError", status |-> 401, hint |-> NoHint, bytes |-> 0],
   [op |-> "onError", status |-> 429, hint |-> NoHint, bytes |-> 0],
   [op |-> "onError", status |-> 429, hint |-> 5000, bytes |-> 0],
   [op |-> "onError", status |-> 500, hint |-> NoHint, bytes |-> 0]}

(* ---------------- initial state: constructed and set up ---------------- *)
NoProbe == [platform |-> "none", status |-> 0, hint |-> NoHint, counter |-> 0, draw |-> "lo"]
\* no createNitroSse() made yet
NoCreate == [called |-> FALSE]

\* no getStats() or isConnected() made yet
NoRead == [op |-> "none", returned |-> TRUE, value |-> "<none>"]

\* the configurations the host gives to setup
Configs ==
  [url : {"https://host/stream"}, method : {"POST"},
   headers : {SetupHeaders}, body : {"{}"},
   backgroundExecution : {TRUE},
   batchingIntervalMs : BatchIntervals, maxBufferSize : Capacities]

\* the engine after construction and setup(config, onEvent), with the environment's budget
InitEngine(calls, callbacks) ==
  /\ config \in Configs
  /\ isRunning = FALSE
  /\ eventSource = NoSource
  /\ eventBuffer = <<>>
  /\ isFlushPending = FALSE
  /\ backoffCounter = 0
  /\ wasRunningBeforeHibernation = FALSE
  /\ reconnectCount = 0
  /\ totalBytesReceived = 0
  /\ lastErrorTime = NoTime
  /\ lastErrorCode = NoErrorCode
  /\ lastProcessedId = NoId
  /\ requests = <<>>
  /\ created = 0
  /\ stopped = {}
  /\ ended = {}
  /\ queue = <<>>
  /\ timers = EmptyBag
  /\ delivered = <<>>
  /\ worker = "idle"
  /\ pusher = "idle"
  /\ eventsToEmit = <<>>
  /\ lastRead = NoRead
  /\ objects = <<>>
  /\ handles = <<>>
  /\ lastCreate = NoCreate
  /\ pushed = 0
  /\ evicted = {}
  /\ cleared = {}
  /\ drainedUpTo = 0
  /\ restartSrc = 0
  /\ fatalSrc = 0
  /\ haltedBy = "none"
  /\ win = NoWin
  /\ callsLeft = calls
  /\ callbacksLeft = callbacks

Init ==
  /\ InitEngine(MaxCalls, MaxCallbacks)
  /\ probe = NoProbe
  /\ verdict = NoVerdict

(* ---------------- setup, on the caller's thread ---------------- *)
\* setup(config:onEvent:): the configuration and the callback are replaced and the
\* lifecycle observers registered again; no other field is written
SetupBody(s) == s

\* the host calls setup again
HostSetup(newConfig) ==
  /\ callsLeft > 0
  /\ callsLeft' = callsLeft - 1
  /\ config' = newConfig
  /\ Commit(SetupBody(Cur))
  /\ UNCHANGED <<callbacksLeft, probe, verdict>>

(* ---------------- submissions to sseQueue ---------------- *)
\* start() / stop() / restart() / flush(): sseQueue.async { ... }
HostCall(op) ==
  /\ callsLeft > 0
  /\ QueueHasRoom
  /\ callsLeft' = callsLeft - 1
  /\ Commit(Submit(Cur, HostBlock(op)))
  /\ UNCHANGED <<config, callbacksLeft, probe, verdict>>

\* setLastProcessedId(id:) / updateHeaders(headers:): sseQueue.async { ... }
HostArgCall(op, arg) ==
  /\ callsLeft > 0
  /\ QueueHasRoom
  /\ callsLeft' = callsLeft - 1
  /\ Commit(Submit(Cur, HostArgBlock(op, arg)))
  /\ UNCHANGED <<config, callbacksLeft, probe, verdict>>

\* handleAppDidEnterBackground / handleAppWillEnterForeground: sseQueue.async { ... }
LifecycleSignal(op) ==
  /\ callsLeft > 0
  /\ QueueHasRoom
  /\ callsLeft' = callsLeft - 1
  /\ Commit(Submit(Cur, Block(op, NoSource, 0, NoHint, 0, "lifecycle")))
  /\ UNCHANGED <<config, callbacksLeft, probe, verdict>>

\* the identity check of SseHandler: source === parent.eventSource
IdentityCheck(source) == source = eventSource

\* SseHandler.onOpened/onClosed/onMessage/onComment/onError on the transport's thread:
\* guard ... source === parent.eventSource else { return }; parent.sseQueue.async { ... }
TransportCallback(source, cb) ==
  /\ callbacksLeft > 0
  /\ QueueHasRoom
  /\ source \in 1..created
  /\ IdentityCheck(source)
  /\ callbacksLeft' = callbacksLeft - 1
  /\ Commit(Submit(Cur, Block(cb.op, source, cb.status, cb.hint, cb.bytes, "transport")))
  /\ UNCHANGED <<config, callsLeft, probe, verdict>>

\* the deadline of an asyncAfter block passes: the block is submitted to sseQueue
TimerFire(t) ==
  /\ BagIn(t, timers)
  /\ QueueHasRoom
  /\ Commit(Submit([Cur EXCEPT !.timers = @ (-) SetToBag({t})], t))
  /\ UNCHANGED <<config, callsLeft, callbacksLeft, probe, verdict>>

(* ---------------- blocks run by sseQueue ---------------- *)
\* the state with the head block taken off the queue
Taken == [Cur EXCEPT !.queue = Tail(@)]

Runs(op) == queue # <<>> /\ Head(queue).op = op

Ran(s) == Commit(s) /\ UNCHANGED <<config, callsLeft, callbacksLeft, probe, verdict>>

\* a mutant of StartBody: the guard on isRunning is missing
StartBody_NoGuard(s) ==
  EstablishConnection([s EXCEPT !.isRunning = TRUE, !.backoffCounter = 0])

\* start(): guard !isRunning; isRunning = true; backoffCounter = 0; establishConnection()
StartBody(s) ==
  IF s.isRunning THEN s
  ELSE EstablishConnection([s EXCEPT !.isRunning = TRUE, !.backoffCounter = 0])

ExecStart ==
  /\ Runs("start")
  /\ LET s == StartBody(Taken)
     IN Ran(IF Head(queue).origin = "host" THEN [s EXCEPT !.haltedBy = "none"] ELSE s)

\* stop(): stopInternal()
ExecStop ==
  /\ Runs("stop")
  /\ Ran([StopInternal(Taken) EXCEPT !.haltedBy = "stop"])

\* a mutant of RestartBody: the stopInternal() is missing
RestartBody_NoStop(s) ==
  EstablishConnection([s EXCEPT !.isRunning = TRUE])

\* restart(): stopInternal(); guard !isRunning; isRunning = true; establishConnection()
RestartBody(s) ==
  LET s1 == StopInternal(s)
  IN IF s1.isRunning THEN s1
     ELSE EstablishConnection([s1 EXCEPT !.isRunning = TRUE])

ExecRestart ==
  /\ Runs("restart")
  /\ LET s == RestartBody(Taken)
     IN Ran([s EXCEPT !.haltedBy = "none", !.restartSrc = s.eventSource])

\* flush(): flushEventsToJs()
ExecFlush ==
  /\ Runs("flush")
  /\ Ran([FlushEventsToJs(Taken) EXCEPT !.win = NoWin])

\* setLastProcessedId(id:): self.lastProcessedId = id
SetLastProcessedIdBody(s, id) == [s EXCEPT !.lastProcessedId = id]

ExecSetLastProcessedId ==
  /\ Runs("setLastProcessedId")
  /\ Ran(SetLastProcessedIdBody(Taken, Head(queue).arg))

\* a mutant of UpdateHeadersBody: the copy takes the default batching interval
UpdateHeadersBody_DefaultInterval(currentConfig, headers) ==
  [url |-> currentConfig.url,
   method |-> currentConfig.method,
   headers |-> headers,
   body |-> currentConfig.body,
   backgroundExecution |-> currentConfig.backgroundExecution,
   batchingIntervalMs |-> 100,
   maxBufferSize |-> currentConfig.maxBufferSize]

\* updateHeaders(headers:): the configuration is replaced by a copy with the new headers
UpdateHeadersBody(currentConfig, headers) ==
  [url |-> currentConfig.url,
   method |-> currentConfig.method,
   headers |-> headers,
   body |-> currentConfig.body,
   backgroundExecution |-> currentConfig.backgroundExecution,
   batchingIntervalMs |-> currentConfig.batchingIntervalMs,
   maxBufferSize |-> currentConfig.maxBufferSize]

ExecUpdateHeaders ==
  /\ Runs("updateHeaders")
  /\ Commit(Taken)
  /\ config' = UpdateHeadersBody(config, Head(queue).arg)
  /\ UNCHANGED <<callsLeft, callbacksLeft, probe, verdict>>

\* a mutant of BackgroundBody: the buffer is dropped, not flushed
BackgroundBody_DropsBuffer(s) ==
  IF ~s.isRunning THEN s
  ELSE [StopInternal([s EXCEPT !.wasRunningBeforeHibernation = TRUE])
          EXCEPT !.backoffCounter = s.backoffCounter]

\* handleAppDidEnterBackground
BackgroundBody(s) ==
  IF ~s.isRunning THEN s
  ELSE LET s1 == FlushEventsToJs([s EXCEPT !.wasRunningBeforeHibernation = TRUE])
           s2 == StopTransport(s1)
       IN [s2 EXCEPT !.eventSource = NoSource, !.isRunning = FALSE, !.win = NoWin]

ExecBackground ==
  /\ Runs("background")
  /\ Ran(BackgroundBody(Taken))

\* a mutant of ForegroundBody: the remembered flag is not cleared
ForegroundBody_KeepsFlag(s) ==
  IF s.wasRunningBeforeHibernation
  THEN Submit(s, Block("start", NoSource, 0, NoHint, 0, "resume"))
  ELSE s

\* handleAppWillEnterForeground: start() submits its block behind the running one
ForegroundBody(s) ==
  IF s.wasRunningBeforeHibernation
  THEN Submit([s EXCEPT !.wasRunningBeforeHibernation = FALSE],
              Block("start", NoSource, 0, NoHint, 0, "resume"))
  ELSE s

ExecForeground ==
  /\ Runs("foreground")
  /\ Ran(ForegroundBody(Taken))

\* SseHandler.onOpened, the queued block
OnOpenedBody(s) ==
  PushEventToBuffer([s EXCEPT !.backoffCounter = 0], "open", "")

ExecOnOpened ==
  /\ Runs("onOpened")
  /\ Ran(OnOpenedBody(Taken))

\* SseHandler.onClosed, the queued block
OnClosedBody(s) ==
  IF s.isRunning THEN ScheduleAutomaticReconnect(s, FALSE) ELSE s

ExecOnClosed ==
  /\ Runs("onClosed")
  /\ Ran(OnClosedBody(Taken))

\* SseHandler.onMessage, the queued block
OnMessageBody(s, bytes) ==
  PushEventToBuffer([s EXCEPT !.totalBytesReceived = @ + bytes], "message", "")

ExecOnMessage ==
  /\ Runs("onMessage")
  /\ Ran(OnMessageBody(Taken, Head(queue).bytes))

\* SseHandler.onComment, the queued block
OnCommentBody(s, bytes) ==
  PushEventToBuffer([s EXCEPT !.totalBytesReceived = @ + bytes], "heartbeat", "comment")

ExecOnComment ==
  /\ Runs("onComment")
  /\ Ran(OnCommentBody(Taken, Head(queue).bytes))

\* Date().timeIntervalSince1970 * 1000 / System.currentTimeMillis(): a reading of the
\* clock later than the reading stored, written as the ordinal of the reading
ClockAfter(storedTime) == storedTime + 1

\* "\(nsError.domain)(\(statusCode))"
IosErrorCode(statusCode) == [domain |-> "NSError.domain", code |-> statusCode]

\* a mutant of OnErrorBody: a fatal error is not counted
OnErrorBody_FatalNotCounted(s, statusCode, retryAfter) ==
  IF ~s.isRunning THEN s
  ELSE LET s1 == [s EXCEPT !.reconnectCount = @ + 1,
                           !.lastErrorTime = ClockAfter(@),
                           !.lastErrorCode = IosErrorCode(statusCode)]
           decision == ErrorDecision(statusCode, retryAfter)
       IN CASE decision = "Fatal" ->
                 [StopInternal(PushEventToBuffer(s, "error", "Fatal Error. Stopping."))
                    EXCEPT !.fatalSrc = s.eventSource, !.haltedBy = "fatal"]
            [] decision = "ServerBusy" ->
                 ScheduleAutomaticReconnectWithFixedDelay(
                   PushEventToBuffer(s1, "error", "Retry-After received"))
            [] decision = "RateLimited" ->
                 [StopInternal(PushEventToBuffer(s1, "error",
                                 "Rate Limited (429) without Retry-After. Stopping."))
                    EXCEPT !.haltedBy = "rateLimited"]
            [] OTHER ->
                 ScheduleAutomaticReconnect(
                   PushEventToBuffer(s1, "error", "localizedDescription"), TRUE)

\* SseHandler.onError, the queued block
OnErrorBody(s, statusCode, retryAfter) ==
  IF ~s.isRunning THEN s
  ELSE LET s1 == [s EXCEPT !.reconnectCount = @ + 1,
                           !.lastErrorTime = ClockAfter(@),
                           !.lastErrorCode = IosErrorCode(statusCode)]
           decision == ErrorDecision(statusCode, retryAfter)
       IN CASE decision = "Fatal" ->
                 [StopInternal(PushEventToBuffer(s1, "error", "Fatal Error. Stopping."))
                    EXCEPT !.fatalSrc = s.eventSource, !.haltedBy = "fatal"]
            [] decision = "ServerBusy" ->
                 ScheduleAutomaticReconnectWithFixedDelay(
                   PushEventToBuffer(s1, "error", "Retry-After received"))
            [] decision = "RateLimited" ->
                 [StopInternal(PushEventToBuffer(s1, "error",
                                 "Rate Limited (429) without Retry-After. Stopping."))
                    EXCEPT !.haltedBy = "rateLimited"]
            [] OTHER ->
                 ScheduleAutomaticReconnect(
                   PushEventToBuffer(s1, "error", "localizedDescription"), TRUE)

ExecOnError ==
  /\ Runs("onError")
  /\ Ran(OnErrorBody(Taken, Head(queue).status, Head(queue).hint))

\* the asyncAfter block of pushEventToBuffer: self?.flushEventsToJs()
ExecFlushTimer ==
  /\ Runs("flushTimer")
  /\ LET s == FlushEventsToJs(Taken)
     IN Ran([s EXCEPT !.win = IF ~@.open THEN @
                              ELSE IF @.stale > 0 THEN [@ EXCEPT !.stale = @ - 1]
                              ELSE NoWin])

\* the asyncAfter block of scheduleAutomaticReconnect
AutoTimerBody(s, currentSource) ==
  IF AutoTimerGuard(s, currentSource) THEN EstablishConnection(s) ELSE s

ExecAutoTimer ==
  /\ Runs("autoTimer")
  /\ Ran(AutoTimerBody(Taken, Head(queue).src))

\* the asyncAfter block of scheduleAutomaticReconnectWithFixedDelay
FixedTimerBody(s) ==
  IF FixedTimerGuard(s) THEN EstablishConnection(s) ELSE s

ExecFixedTimer ==
  /\ Runs("fixedTimer")
  /\ Ran(FixedTimerBody(Taken))

Execute ==
  \/ ExecStart \/ ExecStop \/ ExecRestart \/ ExecFlush
  \/ ExecBackground \/ ExecForeground
  \/ ExecOnOpened \/ ExecOnClosed \/ ExecOnMessage \/ ExecOnComment \/ ExecOnError
  \/ ExecFlushTimer \/ ExecAutoTimer \/ ExecFixedTimer

Environment ==
  \/ \E op \in HostOps : HostCall(op)
  \/ \E op \in LifecycleOps : LifecycleSignal(op)
  \/ \E source \in 1..created : \E cb \in CallbackInputs : TransportCallback(source, cb)
  \/ \E t \in BagToSet(timers) : TimerFire(t)

Next == Environment \/ Execute

Spec == Init /\ [][Next]_vars

(* ---------------- the error decision on its own ---------------- *)
ProbeStatuses == {-1, 200, 400, 401, 403, 404, 429, 500, 503}
ProbeHints == {NoHint, 0, 1000, 5000}
Draws == {"lo", "mid", "hi"}

ProbeInputs ==
  [platform : {"ios", "android"}, status : ProbeStatuses, hint : ProbeHints,
   counter : 0..MaxProbeCounter, draw : Draws]

InitClassify ==
  /\ InitEngine(0, 0)
  /\ probe \in ProbeInputs
  /\ verdict = NoVerdict

\* apply the platform's error handler to the probed error
Classify ==
  /\ verdict = NoVerdict
  /\ probe.platform # "none"
  /\ verdict' = IF probe.platform = "ios"
                THEN IosErrorVerdict(probe.status, probe.hint, probe.counter, probe.draw)
                ELSE AndroidErrorVerdict(probe.status, probe.hint, probe.counter, probe.draw)
  /\ UNCHANGED <<config, isRunning, eventSource, eventBuffer, isFlushPending,
                 backoffCounter, wasRunningBeforeHibernation, reconnectCount,
                 totalBytesReceived, lastErrorTime, lastErrorCode, lastProcessedId,
                 requests,
                 created, stopped, ended, queue, timers, delivered, worker, lastRead, pusher, eventsToEmit,
                 objects, handles, lastCreate,
                 pushed, evicted, cleared, drainedUpTo, restartSrc, fatalSrc, haltedBy,
                 win, callsLeft, callbacksLeft, probe>>

SpecClassify == InitClassify /\ [][Classify]_vars

(* ---------------- every reconnect delay on its own ---------------- *)
\* the errors of ProbeInputs and the clean close, each with the delay it schedules
DelayProbes ==
  [event : {"error"}, platform : {"ios", "android"}, status : ProbeStatuses,
   hint : ProbeHints, counter : 0..MaxProbeCounter, draw : Draws]
  \cup
  [event : {"close"}, platform : {"ios", "android"}, status : {0},
   hint : {NoHint}, counter : 0..MaxProbeCounter, draw : Draws]

InitDelay ==
  /\ InitEngine(0, 0)
  /\ probe \in DelayProbes
  /\ verdict = NoVerdict

\* apply the platform's onError or onClosed to the probe
ClassifyDelay ==
  /\ verdict = NoVerdict
  /\ verdict' =
       CASE probe.event = "close" /\ probe.platform = "ios" ->
              IosCloseVerdict(probe.counter, probe.draw)
         [] probe.event = "close" /\ probe.platform = "android" ->
              AndroidCloseVerdict(probe.counter, probe.draw)
         [] probe.event = "error" /\ probe.platform = "ios" ->
              IosErrorVerdict(probe.status, probe.hint, probe.counter, probe.draw)
         [] OTHER ->
              AndroidErrorVerdict(probe.status, probe.hint, probe.counter, probe.draw)
  /\ UNCHANGED <<config, isRunning, eventSource, eventBuffer, isFlushPending,
                 backoffCounter, wasRunningBeforeHibernation, reconnectCount,
                 totalBytesReceived, lastErrorTime, lastErrorCode, lastProcessedId,
                 requests,
                 created, stopped, ended, queue, timers, delivered, worker, lastRead, pusher, eventsToEmit,
                 objects, handles, lastCreate,
                 pushed, evicted, cleared, drainedUpTo, restartSrc, fatalSrc, haltedBy,
                 win, callsLeft, callbacksLeft, probe>>

SpecDelay == InitDelay /\ [][ClassifyDelay]_vars

(* ---------------- the buffer scenarios ---------------- *)
\* pushes (messages), a fatal error (a push followed by stopInternal), the flush timer,
\* manual flush, stop, restart and hibernation
BufferCallbacks ==
  {cb \in CallbackInputs : cb.op = "onMessage" \/ (cb.op = "onError" /\ cb.status = 401)}

InitBuffer ==
  /\ InitEngine(BufCalls, BufCallbacks)
  /\ probe = NoProbe
  /\ verdict = NoVerdict

NextBuffer ==
  \/ \E op \in HostOps : HostCall(op)
  \/ LifecycleSignal("background")
  \/ \E source \in 1..created : \E cb \in BufferCallbacks : TransportCallback(source, cb)
  \/ TimerFire(FlushTimer)
  \/ ExecStart \/ ExecStop \/ ExecRestart \/ ExecFlush \/ ExecBackground
  \/ ExecOnMessage \/ ExecOnError \/ ExecFlushTimer

SpecBuffer == InitBuffer /\ [][NextBuffer]_vars

(* ---------------- the reconnect scenarios ---------------- *)
ReconnectCallbacks ==
  {cb \in CallbackInputs : cb.op = "onClosed" \/ cb.op = "onError"}

\* the buffer plays no part in reconnecting: these scenarios flush at once
InitReconnect ==
  /\ InitEngine(LiveCalls, LiveCallbacks)
  /\ config.batchingIntervalMs = 0
  /\ config.maxBufferSize = 1
  /\ probe = NoProbe
  /\ verdict = NoVerdict

AnyTimerFires == \E t \in BagToSet(timers) : TimerFire(t)

NextReconnect ==
  \/ \E op \in {"start", "stop", "restart"} : HostCall(op)
  \/ LifecycleSignal("background")
  \/ \E source \in 1..created : \E cb \in ReconnectCallbacks : TransportCallback(source, cb)
  \/ AnyTimerFires
  \/ ExecStart \/ ExecStop \/ ExecRestart \/ ExecBackground
  \/ ExecOnClosed \/ ExecOnError
  \/ ExecAutoTimer \/ ExecFixedTimer

\* sseQueue runs every submitted block, and the deadline of every asyncAfter passes
SpecReconnect ==
  /\ InitReconnect
  /\ [][NextReconnect]_vars
  /\ WF_vars(Execute)
  /\ WF_vars(AnyTimerFires)

(* ---------------- the control scenarios ---------------- *)
\* start, stop, restart and hibernation, with messages, transient errors and clean
\* closes of the transport and every timer
ControlCallbacks ==
  {cb \in CallbackInputs :
     cb.op = "onMessage" \/ cb.op = "onClosed" \/ (cb.op = "onError" /\ cb.status = 500)}

\* these scenarios batch: interval 100 ms, capacity 2
InitControl ==
  /\ InitEngine(CtlCalls, CtlCallbacks)
  /\ config.batchingIntervalMs = 100
  /\ config.maxBufferSize = 2
  /\ probe = NoProbe
  /\ verdict = NoVerdict

NextControl ==
  \/ \E op \in {"start", "stop", "restart"} : HostCall(op)
  \/ LifecycleSignal("background")
  \/ \E source \in 1..created : \E cb \in ControlCallbacks : TransportCallback(source, cb)
  \/ AnyTimerFires
  \/ ExecStart \/ ExecStop \/ ExecRestart \/ ExecBackground
  \/ ExecOnMessage \/ ExecOnClosed \/ ExecOnError
  \/ ExecFlushTimer \/ ExecAutoTimer

SpecControl == InitControl /\ [][NextControl]_vars

(* ---------------- the request scenarios ---------------- *)
\* what each connection attempt is created with: the resume id and the headers set by
\* the host, and attempts opened by start, restart, a reconnect timer and a resume
RequestCallbacks ==
  {cb \in CallbackInputs : cb.op = "onMessage" \/ cb.op = "onClosed"}

\* the buffer plays no part in what a request carries: these scenarios flush at once
InitRequest ==
  /\ InitEngine(ReqCalls, ReqCallbacks)
  /\ config.batchingIntervalMs = 0
  /\ config.maxBufferSize = 1
  /\ probe = NoProbe
  /\ verdict = NoVerdict

NextRequest ==
  \/ \E op \in {"start", "stop", "restart"} : HostCall(op)
  \/ \E id \in LastIds : HostArgCall("setLastProcessedId", id)
  \/ \E h \in HeaderMaps \ {SetupHeaders} : HostArgCall("updateHeaders", h)
  \/ \E op \in LifecycleOps : LifecycleSignal(op)
  \/ \E source \in 1..created : \E cb \in RequestCallbacks : TransportCallback(source, cb)
  \/ AnyTimerFires
  \/ ExecStart \/ ExecStop \/ ExecRestart
  \/ ExecSetLastProcessedId \/ ExecUpdateHeaders
  \/ ExecBackground \/ ExecForeground
  \/ ExecOnMessage \/ ExecOnClosed \/ ExecAutoTimer

SpecRequest == InitRequest /\ [][NextRequest]_vars

(* ---------------- the Android implementation ---------------- *)
\* class NitroSse of the Android module: start() and stop() run on the caller's thread,
\* the listener's callbacks on the transport's thread, performConnection and the flush
\* task on the handler thread (queue: the handler's runnable messages, timers: its
\* delayed ones)
ConnectTask == Block("performConnection", NoSource, 0, NoHint, 0, "host")

\* flushBufferToJs()
AndroidFlushBufferToJs(s) ==
  IF s.eventBuffer = <<>>
  THEN [s EXCEPT !.isFlushPending = FALSE]
  ELSE [s EXCEPT !.delivered = Append(@, s.eventBuffer),
                 !.eventBuffer = <<>>,
                 !.isFlushPending = FALSE,
                 !.drainedUpTo = s.pushed]

\* pushEventToBuffer(event)
AndroidPushEventToBuffer(s, type, message) ==
  LET event == [type |-> type, seq |-> s.pushed + 1, message |-> message]
      kept == EvictLoop(s.eventBuffer, s.config.maxBufferSize)
      s1 == [s EXCEPT !.eventBuffer = Append(kept, event),
                      !.pushed = @ + 1,
                      !.evicted = @ \cup (SeqsOf(s.eventBuffer) \ SeqsOf(kept))]
  IN IF s.config.batchingIntervalMs <= 0
     THEN AndroidFlushBufferToJs(s1)
     ELSE IF ~s1.isFlushPending
     THEN Schedule([s1 EXCEPT !.isFlushPending = TRUE], FlushTimer)
     ELSE s1

\* start(): isRunning.set(true); backoffCounter = 0; sseHandler?.post { performConnection() }
AndroidStart(s) ==
  Submit([s EXCEPT !.isRunning = TRUE, !.backoffCounter = 0], ConnectTask)

\* performConnection()
AndroidPerformConnection(s) ==
  IF ~s.isRunning THEN s ELSE EstablishConnection(s)

\* stop(): isRunning.set(false); backoffCounter = 0; removeCallbacksAndMessages(null);
\* eventSource?.cancel(); eventSource = null; eventBuffer.clear()
AndroidStop(s) ==
  LET s1 == StopTransport(s)
  IN [s1 EXCEPT !.isRunning = FALSE,
                !.backoffCounter = 0,
                !.queue = <<>>,
                !.timers = EmptyBag,
                !.eventSource = NoSource,
                !.cleared = @ \cup SeqsOf(s.eventBuffer),
                !.drainedUpTo = s.pushed,
                !.eventBuffer = <<>>]

AndroidStartCall ==
  /\ callsLeft > 0
  /\ QueueHasRoom
  /\ callsLeft' = callsLeft - 1
  /\ Commit([AndroidStart(Cur) EXCEPT !.haltedBy = "none"])
  /\ UNCHANGED <<config, callbacksLeft, probe, verdict>>

AndroidStopCall ==
  /\ callsLeft > 0
  /\ callsLeft' = callsLeft - 1
  /\ Commit([AndroidStop(Cur) EXCEPT !.haltedBy = "stop"])
  /\ UNCHANGED <<config, callbacksLeft, probe, verdict>>

\* EventSource instances that can still deliver onOpen, onEvent and onClosed: created,
\* not cancelled, and no terminal callback delivered yet
AndroidLive(s) == ((1..s.created) \ s.stopped) \ s.ended

\* sseListener.onEvent of a live EventSource, on the transport's thread
AndroidOnEvent(source) ==
  /\ callbacksLeft > 0
  /\ source \in AndroidLive(Cur)
  /\ callbacksLeft' = callbacksLeft - 1
  /\ Commit(AndroidPushEventToBuffer(Cur, "message", ""))
  /\ UNCHANGED <<config, callsLeft, probe, verdict>>

\* sseListener.onOpen: backoffCounter = 0; pushEventToBuffer(OPEN)
AndroidOnOpenBody(s) ==
  AndroidPushEventToBuffer([s EXCEPT !.backoffCounter = 0], "open", "")

AndroidOnOpen(source) ==
  /\ callbacksLeft > 0
  /\ source \in AndroidLive(Cur)
  /\ callbacksLeft' = callbacksLeft - 1
  /\ Commit(AndroidOnOpenBody(Cur))
  /\ UNCHANGED <<config, callsLeft, probe, verdict>>

\* sseHandler?.postDelayed({ if (isRunning.get()) performConnection() }, delay)
ReconnectTask == TimerBlock("reconnectTask", NoSource)

\* the failures the transport reports: an HTTP status with no throwable, or a throwable
\* with no response (status -1), as after cancel()
NoThrowable == "<null>"
AndroidFailures ==
  {[status |-> 401, hint |-> NoHint, throwable |-> NoThrowable],
   [status |-> 429, hint |-> NoHint, throwable |-> NoThrowable],
   [status |-> 429, hint |-> 5000, throwable |-> NoThrowable],
   [status |-> 500, hint |-> NoHint, throwable |-> NoThrowable],
   [status |-> -1, hint |-> NoHint, throwable |-> "IOException"]}

\* t?.javaClass?.simpleName ?: statusCode.toString()
AndroidErrorCode(statusCode, throwable) ==
  IF throwable # NoThrowable THEN [domain |-> throwable, code |-> 0]
  ELSE [domain |-> "", code |-> statusCode]

\* a mutant of AndroidOnFailureBody: the guard on isRunning is missing
AndroidOnFailureBody_NoGuard(s, f) ==
  LET s1 == [s EXCEPT !.reconnectCount = @ + 1,
                      !.lastErrorTime = ClockAfter(@),
                      !.lastErrorCode = AndroidErrorCode(f.status, f.throwable)]
      decision == AndroidErrorDecision(f.status, f.hint)
  IN CASE decision = "Fatal" ->
            [AndroidStop(AndroidPushEventToBuffer(s1, "error", "Fatal Error. Stopping."))
               EXCEPT !.haltedBy = "fatal"]
       [] decision = "ServerBusy" ->
            Schedule(AndroidPushEventToBuffer(s1, "error", "Retry-After received"),
                     ReconnectTask)
       [] decision = "RateLimited" ->
            [AndroidStop(AndroidPushEventToBuffer(s1, "error",
                           "Rate Limited (429) without Retry-After. Stopping."))
               EXCEPT !.haltedBy = "rateLimited"]
       [] decision = "Transient" ->
            Schedule(AndroidPushEventToBuffer([s1 EXCEPT !.backoffCounter = @ + 1],
                                              "error", "Link lost"),
                     ReconnectTask)
       [] OTHER ->
            Schedule(AndroidPushEventToBuffer(s1, "error", "Link lost"), ReconnectTask)

\* sseListener.onFailure
AndroidOnFailureBody(s, f) ==
  IF ~s.isRunning THEN s
  ELSE LET s1 == [s EXCEPT !.reconnectCount = @ + 1,
                           !.lastErrorTime = ClockAfter(@),
                           !.lastErrorCode = AndroidErrorCode(f.status, f.throwable)]
           decision == AndroidErrorDecision(f.status, f.hint)
       IN CASE decision = "Fatal" ->
                 [AndroidStop(AndroidPushEventToBuffer(s1, "error",
                                                       "Fatal Error. Stopping."))
                    EXCEPT !.haltedBy = "fatal"]
            [] decision = "ServerBusy" ->
                 Schedule(AndroidPushEventToBuffer(s1, "error", "Retry-After received"),
                          ReconnectTask)
            [] decision = "RateLimited" ->
                 [AndroidStop(AndroidPushEventToBuffer(s1, "error",
                                "Rate Limited (429) without Retry-After. Stopping."))
                    EXCEPT !.haltedBy = "rateLimited"]
            [] decision = "Transient" ->
                 Schedule(AndroidPushEventToBuffer([s1 EXCEPT !.backoffCounter = @ + 1],
                                                   "error", "Link lost"),
                          ReconnectTask)
            [] OTHER ->
                 Schedule(AndroidPushEventToBuffer(s1, "error", "Link lost"),
                          ReconnectTask)

\* the transport reports a failure of an instance that has not reported its end yet: a
\* live one with any failure, a cancelled one with the throwable of its cancellation
AndroidOnFailure(source, f) ==
  /\ callbacksLeft > 0
  /\ source \in (1..created) \ ended
  /\ source \in stopped => f.throwable # NoThrowable
  /\ callbacksLeft' = callbacksLeft - 1
  /\ Commit([AndroidOnFailureBody(Cur, f) EXCEPT !.ended = @ \cup {source}])
  /\ UNCHANGED <<config, callsLeft, probe, verdict>>

\* sseListener.onClosed
AndroidOnClosedBody(s) ==
  IF s.isRunning THEN Schedule(s, ReconnectTask) ELSE s

AndroidOnClosed(source) ==
  /\ callbacksLeft > 0
  /\ source \in AndroidLive(Cur)
  /\ callbacksLeft' = callbacksLeft - 1
  /\ Commit([AndroidOnClosedBody(Cur) EXCEPT !.ended = @ \cup {source}])
  /\ UNCHANGED <<config, callsLeft, probe, verdict>>

\* the handler thread runs a delayed reconnect task
AndroidExecReconnectTask ==
  /\ Runs("reconnectTask")
  /\ Ran(IF Taken.isRunning THEN AndroidPerformConnection(Taken) ELSE Taken)

\* the handler thread runs the posted performConnection
AndroidExecConnect ==
  /\ Runs("performConnection")
  /\ Ran(AndroidPerformConnection(Taken))

\* the handler thread runs the delayed flush task
AndroidExecFlushTask ==
  /\ Runs("flushTimer")
  /\ Ran(AndroidFlushBufferToJs(Taken))

InitAndroid ==
  /\ InitEngine(DroidCalls, DroidCallbacks)
  /\ probe = NoProbe
  /\ verdict = NoVerdict

NextAndroid ==
  \/ AndroidStartCall
  \/ AndroidStopCall
  \/ \E source \in 1..created : AndroidOnOpen(source)
  \/ \E source \in 1..created : AndroidOnEvent(source)
  \/ \E source \in 1..created : \E f \in AndroidFailures : AndroidOnFailure(source, f)
  \/ \E source \in 1..created : AndroidOnClosed(source)
  \/ AnyTimerFires
  \/ AndroidExecConnect
  \/ AndroidExecFlushTask
  \/ AndroidExecReconnectTask

SpecAndroid == InitAndroid /\ [][NextAndroid]_vars

(* ---------------- the resume scenarios ---------------- *)
\* hibernation and resume: start, stop and setLastProcessedId of the host with both
\* lifecycle signals, no transport callback
ResumeCalls == 4

InitResume ==
  /\ InitEngine(ResumeCalls, 0)
  /\ config.batchingIntervalMs = 0
  /\ config.maxBufferSize = 1
  /\ probe = NoProbe
  /\ verdict = NoVerdict

NextResume ==
  \/ \E op \in {"start", "stop"} : HostCall(op)
  \/ \E id \in LastIds : HostArgCall("setLastProcessedId", id)
  \/ \E op \in LifecycleOps : LifecycleSignal(op)
  \/ ExecStart \/ ExecStop \/ ExecSetLastProcessedId
  \/ ExecBackground \/ ExecForeground

SpecResume == InitResume /\ [][NextResume]_vars

(* ---------------- the stats scenarios ---------------- *)
\* errors, clean closes and messages on a running and on a stopped engine, on either
\* platform: the engine of InitStats is the iOS or the Android one, and takes the steps
\* of its own implementation only
StatCalls == 2
StatCallbacks == 2

StatsCallbacks ==
  {cb \in CallbackInputs : cb.op = "onMessage" \/ cb.op = "onClosed" \/ cb.op = "onError"}

InitStats ==
  /\ InitEngine(StatCalls, StatCallbacks)
  /\ probe \in {[NoProbe EXCEPT !.platform = p] : p \in {"ios", "android"}}
  /\ verdict = NoVerdict

NextStatsIos ==
  \/ \E op \in {"start", "stop"} : HostCall(op)
  \/ \E source \in 1..created : \E cb \in StatsCallbacks : TransportCallback(source, cb)
  \/ AnyTimerFires
  \/ ExecStart \/ ExecStop
  \/ ExecOnMessage \/ ExecOnClosed \/ ExecOnError
  \/ ExecFlushTimer \/ ExecAutoTimer \/ ExecFixedTimer

NextStats ==
  \/ probe.platform = "ios" /\ NextStatsIos
  \/ probe.platform = "android" /\ NextAndroid

SpecStats == InitStats /\ [][NextStats]_vars

(* ---------------- the setup scenarios ---------------- *)
\* every operation of the engine, and setup called again at any moment
SetupCalls == 3
SetupCallbacks == 2

InitSetup ==
  /\ InitEngine(SetupCalls, SetupCallbacks)
  /\ probe = NoProbe
  /\ verdict = NoVerdict

NextSetup ==
  \/ \E newConfig \in Configs : HostSetup(newConfig)
  \/ Environment
  \/ Execute

SpecSetup == InitSetup /\ [][NextSetup]_vars

(* ---------------- the synchronous reads ---------------- *)
\* getStats(): sseQueue.sync { SseStats(...) }
GetStatsBody(s) ==
  [totalBytesReceived |-> s.totalBytesReceived, reconnectCount |-> s.reconnectCount,
   lastErrorTime |-> s.lastErrorTime, lastErrorCode |-> s.lastErrorCode]

\* a mutant of IsConnectedBody: connected only while the current transport is not stopped
IsConnectedBody_NeedsTransport(s) ==
  [isRunning |-> s.isRunning /\ s.eventSource \notin s.stopped]

\* isConnected(): sseQueue.sync { isRunning }
IsConnectedBody(s) == [isRunning |-> s.isRunning]

SyncReads == {"getStats", "isConnected"}

SyncReadBody(s, op) == IF op = "getStats" THEN GetStatsBody(s) ELSE IsConnectedBody(s)

\* sseQueue.sync called on a thread other than the queue's: the caller waits until the
\* blocks submitted before its own have run, its block runs and the call returns
HostSyncRead(op) ==
  /\ callsLeft > 0
  /\ worker = "idle" /\ queue = <<>>
  /\ callsLeft' = callsLeft - 1
  /\ Commit([Cur EXCEPT !.lastRead = [op |-> op, returned |-> TRUE,
                                      value |-> SyncReadBody(Cur, op)]])
  /\ UNCHANGED <<config, callbacksLeft, probe, verdict>>

\* what the host's delivery callback does with a batch: nothing more, or a call of
\* getStats() or isConnected()
CallbackReads == {"none"} \cup SyncReads

\* onEventsCallback?(batch) as the last statement of a block of sseQueue. A callback that
\* calls getStats() or isConnected() calls sseQueue.sync on the queue's own thread: the
\* block it submits waits for the running block, which waits for the call to return.
InDeliveryCallback(before, after, reads) ==
  IF after.delivered = before.delivered \/ reads = "none"
  THEN after
  ELSE Submit([after EXCEPT !.worker = "syncOnOwnQueue",
                            !.lastRead = [op |-> reads, returned |-> FALSE,
                                          value |-> "<none>"]],
              HostBlock(reads))

\* sseQueue runs a block only when its thread is free
WorkerFree == worker = "idle"

\* flush(), the flush timer and onMessage, whose last statement is the delivery
ExecFlushDelivering ==
  /\ Runs("flush") /\ WorkerFree
  /\ \E reads \in CallbackReads :
       Ran(InDeliveryCallback(Taken, [FlushEventsToJs(Taken) EXCEPT !.win = NoWin], reads))

ExecFlushTimerDelivering ==
  /\ Runs("flushTimer") /\ WorkerFree
  /\ \E reads \in CallbackReads :
       Ran(InDeliveryCallback(Taken, [FlushEventsToJs(Taken) EXCEPT !.win = NoWin], reads))

ExecOnMessageDelivering ==
  /\ Runs("onMessage") /\ WorkerFree
  /\ \E reads \in CallbackReads :
       Ran(InDeliveryCallback(Taken, OnMessageBody(Taken, Head(queue).bytes), reads))

SyncCalls == 3
SyncCallbacks == 2

InitSync ==
  /\ InitEngine(SyncCalls, SyncCallbacks)
  /\ probe = NoProbe
  /\ verdict = NoVerdict

NextSync ==
  \/ \E op \in {"start", "stop", "flush"} : HostCall(op)
  \/ \E op \in SyncReads : HostSyncRead(op)
  \/ \E source \in 1..created : \E cb \in {c \in CallbackInputs : c.op = "onMessage"} :
       TransportCallback(source, cb)
  \/ TimerFire(FlushTimer)
  \/ WorkerFree /\ ExecStart
  \/ WorkerFree /\ ExecStop
  \/ ExecFlushDelivering
  \/ ExecFlushTimerDelivering
  \/ ExecOnMessageDelivering

SpecSync == InitSync /\ [][NextSync]_vars

(* ---------------- the factory createNitroSse ---------------- *)
\* what NitroModules.createHybridObject('NitroSse') can do: construct a native object and
\* return it, throw, or return a value that is not an object
NoObject == 0
FalsyValues == {"undefined", "null", "false", "0", "''", "NaN"}

FactoryOutcomes(freshRef) ==
  {[kind |-> "object", ref |-> freshRef, detail |-> ""],
   [kind |-> "throws", ref |-> NoObject, detail |-> "Test Error"]}
  \cup {[kind |-> "value", ref |-> NoObject, detail |-> v] : v \in FalsyValues}

\* let nativeSse: NitroSse | undefined, after try { nativeSse = createHybridObject() } catch {}
AfterTryCatch(outcome) ==
  IF outcome.kind = "throws"
  THEN [kind |-> "value", ref |-> NoObject, detail |-> "undefined"]
  ELSE outcome

\* !nativeSse
IsFalsy(value) == value.kind = "value" /\ value.detail \in FalsyValues

DebugMessage == "Native NitroSse not found. This might be a test environment or web."
\* the message of the Error thrown, as the text the tests match and the rest
NotFoundMessage ==
  <<"NitroSse: Native module not found",
    ". Ensure you have linked the library and built the app for iOS/Android.">>

\* a mutant of CreateNitroSseBody: the first object created is kept and handed out again
CreateNitroSseBody_Singleton(outcome) ==
  LET nativeSse == AfterTryCatch(outcome)
  IN IF IsFalsy(nativeSse)
     THEN [called |-> TRUE, outcome |-> outcome, returned |-> NoObject,
           logged |-> <<DebugMessage>>, thrown |-> NotFoundMessage]
     ELSE [called |-> TRUE, outcome |-> outcome,
           returned |-> IF handles # <<>> THEN handles[1] ELSE nativeSse.ref,
           logged |-> <<>>, thrown |-> <<>>]

\* a mutant of CreateNitroSseBody: the call of createHybridObject is not in a try
CreateNitroSseBody_NoCatch(outcome) ==
  IF outcome.kind = "throws"
  THEN [called |-> TRUE, outcome |-> outcome, returned |-> NoObject,
        logged |-> <<>>, thrown |-> <<outcome.detail>>]
  ELSE IF IsFalsy(outcome)
  THEN [called |-> TRUE, outcome |-> outcome, returned |-> NoObject,
        logged |-> <<DebugMessage>>, thrown |-> NotFoundMessage]
  ELSE [called |-> TRUE, outcome |-> outcome, returned |-> outcome.ref,
        logged |-> <<>>, thrown |-> <<>>]

\* createNitroSse(): what it returns, logs with console.debug and throws
CreateNitroSseBody(outcome) ==
  LET nativeSse == AfterTryCatch(outcome)
  IN IF IsFalsy(nativeSse)
     THEN [called |-> TRUE, outcome |-> outcome, returned |-> NoObject,
           logged |-> <<DebugMessage>>, thrown |-> NotFoundMessage]
     ELSE [called |-> TRUE, outcome |-> outcome, returned |-> nativeSse.ref,
           logged |-> <<>>, thrown |-> <<>>]

\* a NitroSse object as its initializers leave it; config is nil until setup
NoConfig == [url |-> "<nil>"]
NewObject ==
  [config |-> NoConfig, isRunning |-> FALSE, eventSource |-> NoSource,
   eventBuffer |-> <<>>, isFlushPending |-> FALSE, backoffCounter |-> 0,
   wasRunningBeforeHibernation |-> FALSE, reconnectCount |-> 0,
   totalBytesReceived |-> 0, lastErrorTime |-> NoTime, lastErrorCode |-> NoErrorCode,
   lastProcessedId |-> NoId, requests |-> <<>>, created |-> 0, stopped |-> {},
   ended |-> {}, queue |-> <<>>, timers |-> EmptyBag, delivered |-> <<>>,
   worker |-> "idle", lastRead |-> NoRead, pushed |-> 0, evicted |-> {}, cleared |-> {},
   drainedUpTo |-> 0, restartSrc |-> 0, fatalSrc |-> 0, haltedBy |-> "none", win |-> NoWin]

\* native objects the factory may construct
MaxInstances == 2

\* the host calls createNitroSse() and createHybridObject does what outcome says; a
\* call that returns hands the host a handle
CreateNitroSse(outcome) ==
  /\ Len(objects) < MaxInstances
  /\ outcome \in FactoryOutcomes(Len(objects) + 1)
  /\ LET result == CreateNitroSseBody(outcome)
     IN Commit([Cur EXCEPT
           !.objects = IF outcome.kind = "object" THEN Append(@, NewObject) ELSE @,
           !.handles = IF result.thrown = <<>> THEN Append(@, result.returned) ELSE @,
           !.lastCreate = result])
  /\ UNCHANGED <<config, callsLeft, callbacksLeft, probe, verdict>>

(* ---------------- the engines behind the handles ---------------- *)
\* what sseQueue does with one block, for each kind of block
BlockBody(s, blk) ==
  CASE blk.op = "start" -> StartBody(s)
    [] blk.op = "stop" -> StopInternal(s)
    [] blk.op = "restart" -> RestartBody(s)
    [] blk.op = "flush" -> FlushEventsToJs(s)
    [] blk.op = "setLastProcessedId" -> SetLastProcessedIdBody(s, blk.arg)
    [] blk.op = "updateHeaders" ->
         [s EXCEPT !.config = UpdateHeadersBody(s.config, blk.arg)]
    [] blk.op = "onMessage" -> OnMessageBody(s, blk.bytes)
    [] blk.op = "onError" -> OnErrorBody(s, blk.status, blk.hint)
    [] blk.op = "flushTimer" -> FlushEventsToJs(s)
    [] blk.op = "autoTimer" -> AutoTimerBody(s, blk.src)
    [] OTHER -> s

\* the object behind the h-th handle
ObjectOf(h) == objects[handles[h]]

\* the object behind the h-th handle becomes s
SetObject(h, s) == Commit([Cur EXCEPT !.objects[handles[h]] = s])

\* setup(config, onEvent) on a handle, once
InstanceSetup(h, newConfig) ==
  /\ ObjectOf(h).config = NoConfig
  /\ SetObject(h, [ObjectOf(h) EXCEPT !.config = newConfig])
  /\ UNCHANGED <<config, callsLeft, callbacksLeft, probe, verdict>>

\* start() / stop() / restart() / flush() / setLastProcessedId / updateHeaders on a handle
InstanceCall(h, blk) ==
  /\ callsLeft > 0
  /\ ObjectOf(h).config # NoConfig
  /\ Len(ObjectOf(h).queue) < MaxQueue
  /\ callsLeft' = callsLeft - 1
  /\ SetObject(h, Submit(ObjectOf(h), blk))
  /\ UNCHANGED <<config, callbacksLeft, probe, verdict>>

\* a callback of the transport of the object behind a handle, past the identity check
InstanceCallback(h, cb) ==
  /\ callbacksLeft > 0
  /\ ObjectOf(h).eventSource # NoSource
  /\ Len(ObjectOf(h).queue) < MaxQueue
  /\ callbacksLeft' = callbacksLeft - 1
  /\ SetObject(h, Submit(ObjectOf(h),
                         Block(cb.op, ObjectOf(h).eventSource, cb.status, cb.hint,
                               cb.bytes, "transport")))
  /\ UNCHANGED <<config, callsLeft, probe, verdict>>

\* the deadline of a timer of the object behind a handle passes
InstanceTimerFire(h, t) ==
  /\ BagIn(t, ObjectOf(h).timers)
  /\ Len(ObjectOf(h).queue) < MaxQueue
  /\ SetObject(h, Submit([ObjectOf(h) EXCEPT !.timers = @ (-) SetToBag({t})], t))
  /\ UNCHANGED <<config, callsLeft, callbacksLeft, probe, verdict>>

\* the sseQueue of the object behind a handle runs its head block
InstanceExec(h) ==
  /\ ObjectOf(h).queue # <<>>
  /\ SetObject(h, BlockBody([ObjectOf(h) EXCEPT !.queue = Tail(@)],
                            Head(ObjectOf(h).queue)))
  /\ UNCHANGED <<config, callsLeft, callbacksLeft, probe, verdict>>

InstCalls == 1
InstCallbacks == 1

\* the calls a host makes on a handle
InstanceBlocks ==
  {HostBlock(op) : op \in {"start", "stop", "restart", "flush"}}
  \cup {HostArgBlock("setLastProcessedId", "42"), HostArgBlock("updateHeaders", "h1")}

InstanceCallbacks ==
  {cb \in CallbackInputs : cb.op = "onMessage" \/ (cb.op = "onError" /\ cb.status = 500)}

\* these scenarios batch: interval 100 ms, capacity 2
InstanceConfigs ==
  {c \in Configs : c.batchingIntervalMs = 100 /\ c.maxBufferSize = 2}

InitInstances ==
  /\ InitEngine(InstCalls, InstCallbacks)
  /\ probe = NoProbe
  /\ verdict = NoVerdict

\* the native module is linked: createHybridObject constructs an object
NextInstances ==
  \/ CreateNitroSse([kind |-> "object", ref |-> Len(objects) + 1, detail |-> ""])
  \/ \E h \in 1..Len(handles) : \E c \in InstanceConfigs : InstanceSetup(h, c)
  \/ \E h \in 1..Len(handles) : \E blk \in InstanceBlocks : InstanceCall(h, blk)
  \/ \E h \in 1..Len(handles) : \E cb \in InstanceCallbacks : InstanceCallback(h, cb)
  \/ \E h \in 1..Len(handles) : \E t \in BagToSet(ObjectOf(h).timers) :
       InstanceTimerFire(h, t)
  \/ \E h \in 1..Len(handles) : InstanceExec(h)

SpecInstances == InitInstances /\ [][NextInstances]_vars

(* ---------------- the factory scenarios ---------------- *)
\* createNitroSse() with every outcome of createHybridObject, and the engines it hands
\* out set up, started and stopped
FactoryCalls == 2

InitFactory ==
  /\ InitEngine(FactoryCalls, 0)
  /\ probe = NoProbe
  /\ verdict = NoVerdict

NextFactory ==
  \/ \E outcome \in FactoryOutcomes(Len(objects) + 1) : CreateNitroSse(outcome)
  \/ \E h \in 1..Len(handles) : \E c \in InstanceConfigs : InstanceSetup(h, c)
  \/ \E h \in 1..Len(handles) : \E op \in {"start", "stop"} :
       InstanceCall(h, HostBlock(op))
  \/ \E h \in 1..Len(handles) : InstanceExec(h)

SpecFactory == InitFactory /\ [][NextFactory]_vars

(* ---------------- the backoff counter scenarios ---------------- *)
\* every host call, both lifecycle signals, every callback of the transport and the
\* reconnect timers; these scenarios flush at once
BackoffCalls == 2
BackoffCallbacks == 2

InitBackoff ==
  /\ InitEngine(BackoffCalls, BackoffCallbacks)
  /\ config.batchingIntervalMs = 0
  /\ config.maxBufferSize = 1
  /\ probe = NoProbe
  /\ verdict = NoVerdict

NextBackoff ==
  \/ \E op \in HostOps : HostCall(op)
  \/ HostArgCall("setLastProcessedId", "42")
  \/ HostArgCall("updateHeaders", "h1")
  \/ \E op \in LifecycleOps : LifecycleSignal(op)
  \/ \E source \in 1..created : \E cb \in CallbackInputs : TransportCallback(source, cb)
  \/ AnyTimerFires
  \/ ExecStart \/ ExecStop \/ ExecRestart \/ ExecFlush
  \/ ExecSetLastProcessedId \/ ExecUpdateHeaders
  \/ ExecBackground \/ ExecForeground
  \/ ExecOnOpened \/ ExecOnClosed \/ ExecOnMessage \/ ExecOnComment \/ ExecOnError
  \/ ExecAutoTimer \/ ExecFixedTimer

SpecBackoff == InitBackoff /\ [][NextBackoff]_vars

(* ---------------- the pending-flush scenarios ---------------- *)
\* batching with interval 100 ms: pushes, the flush timer, manual flush, stop, restart
\* and hibernation; sseQueue runs every submitted block and the deadline of every
\* asyncAfter passes
PendCalls == 2
PendCallbacks == 2

InitPending ==
  /\ InitEngine(PendCalls, PendCallbacks)
  /\ config.batchingIntervalMs = 100
  /\ probe = NoProbe
  /\ verdict = NoVerdict

ExecutePending ==
  \/ ExecStart \/ ExecStop \/ ExecRestart \/ ExecFlush \/ ExecBackground
  \/ ExecOnMessage \/ ExecOnError \/ ExecFlushTimer

NextPending ==
  \/ \E op \in HostOps : HostCall(op)
  \/ LifecycleSignal("background")
  \/ \E source \in 1..created : \E cb \in BufferCallbacks : TransportCallback(source, cb)
  \/ TimerFire(FlushTimer)
  \/ ExecutePending

SpecPending ==
  /\ InitPending
  /\ [][NextPending]_vars
  /\ WF_vars(ExecutePending)
  /\ WF_vars(TimerFire(FlushTimer))

(* ---------------- Android: pushEventToBuffer against flushBufferToJs ---------------- *)
\* pushEventToBuffer runs on a thread of the transport and flushBufferToJs on the handler
\* thread; each synchronized(eventBuffer) block and each operation on the AtomicBoolean
\* is one step

\* pushEventToBuffer, its synchronized block: evict, then add
AndroidPushSynchronized(s, type, message) ==
  LET event == [type |-> type, seq |-> s.pushed + 1, message |-> message]
      kept == EvictLoop(s.eventBuffer, s.config.maxBufferSize)
  IN [s EXCEPT !.eventBuffer = Append(kept, event),
               !.pushed = @ + 1,
               !.evicted = @ \cup (SeqsOf(s.eventBuffer) \ SeqsOf(kept)),
               !.pusher = "added"]

\* pushEventToBuffer after the synchronized block: flush at once, or
\* if (!isFlushPending.getAndSet(true)) postDelayed(flush task)
AndroidPushPost(s) ==
  LET s1 == [s EXCEPT !.pusher = "idle"]
  IN IF s.config.batchingIntervalMs <= 0
     THEN AndroidFlushBufferToJs(s1)
     ELSE IF ~s.isFlushPending
     THEN Schedule([s1 EXCEPT !.isFlushPending = TRUE], FlushTimer)
     ELSE s1

\* flushBufferToJs, its synchronized block: on an empty buffer clear the flag and return,
\* otherwise copy the buffer into eventsToEmit and clear it
AndroidFlushSynchronized(s) ==
  IF s.eventBuffer = <<>>
  THEN [s EXCEPT !.isFlushPending = FALSE]
  ELSE [s EXCEPT !.eventsToEmit = s.eventBuffer,
                 !.eventBuffer = <<>>,
                 !.drainedUpTo = s.pushed,
                 !.worker = "drained"]

\* sseListener.onEvent on a thread of the transport enters pushEventToBuffer
AndroidOnEventEnters(source) ==
  /\ callbacksLeft > 0
  /\ source \in AndroidLive(Cur)
  /\ pusher = "idle"
  /\ callbacksLeft' = callbacksLeft - 1
  /\ Commit(AndroidPushSynchronized(Cur, "message", ""))
  /\ UNCHANGED <<config, callsLeft, probe, verdict>>

\* the transport thread goes on past the synchronized block
AndroidOnEventPosts ==
  /\ pusher = "added"
  /\ Ran(AndroidPushPost(Cur))

\* the handler thread takes the flush task and runs its synchronized block
AndroidFlushEnters ==
  /\ worker = "idle"
  /\ Runs("flushTimer")
  /\ Ran(AndroidFlushSynchronized(Taken))

\* isFlushPending.set(false) after the synchronized block
AndroidFlushClearsFlag ==
  /\ worker = "drained"
  /\ Ran([Cur EXCEPT !.isFlushPending = FALSE, !.worker = "cleared"])

\* onEventsCallback?.invoke(eventsToEmit)
AndroidFlushInvokes ==
  /\ worker = "cleared"
  /\ Ran([Cur EXCEPT !.delivered = Append(@, eventsToEmit),
                     !.eventsToEmit = <<>>,
                     !.worker = "idle"])

RaceCalls == 1
RaceCallbacks == 3

\* these scenarios batch: interval 100 ms
InitRace ==
  /\ InitEngine(RaceCalls, RaceCallbacks)
  /\ config.batchingIntervalMs = 100
  /\ probe = NoProbe
  /\ verdict = NoVerdict

NextRace ==
  \/ AndroidStartCall
  \/ worker = "idle" /\ AndroidExecConnect
  \/ \E source \in 1..created : AndroidOnEventEnters(source)
  \/ AndroidOnEventPosts
  \/ TimerFire(FlushTimer)
  \/ AndroidFlushEnters
  \/ AndroidFlushClearsFlag
  \/ AndroidFlushInvokes

SpecRace == InitRace /\ [][NextRace]_vars

(* ---------------- the isConnected scenarios ---------------- *)
\* isConnected() called from a thread of the host between start, stop, restart, both
\* lifecycle signals, opens, closes and errors of the transport and the reconnect timers;
\* these scenarios flush at once
ConnCalls == 3
ConnCallbacks == 1

ConnCallbackInputs ==
  {cb \in CallbackInputs : cb.op \in {"onOpened", "onClosed", "onError"}}

InitConnected ==
  /\ InitEngine(ConnCalls, ConnCallbacks)
  /\ config.batchingIntervalMs = 0
  /\ config.maxBufferSize = 1
  /\ probe = NoProbe
  /\ verdict = NoVerdict

NextConnected ==
  \/ \E op \in {"start", "stop", "restart"} : HostCall(op)
  \/ \E op \in LifecycleOps : LifecycleSignal(op)
  \/ HostSyncRead("isConnected")
  \/ \E source \in 1..created : \E cb \in ConnCallbackInputs : TransportCallback(source, cb)
  \/ AnyTimerFires
  \/ ExecStart \/ ExecStop \/ ExecRestart
  \/ ExecBackground \/ ExecForeground
  \/ ExecOnOpened \/ ExecOnClosed \/ ExecOnError
  \/ ExecAutoTimer \/ ExecFixedTimer

SpecConnected == InitConnected /\ [][NextConnected]_vars

(* ---------------- the Android backoff at large counters ---------------- *)
\* handshake failures (no response, or a status other than 200) met at every backoff
\* counter up to MaxShiftCounter, past the width of the Int that 1 shl n shifts
MaxShiftCounter == 33

ShiftProbes ==
  [event : {"error"}, platform : {"android"}, status : {-1, 500},
   hint : {NoHint}, counter : 0..MaxShiftCounter, draw : Draws]

InitShift ==
  /\ InitEngine(0, 0)
  /\ probe \in ShiftProbes
  /\ verdict = NoVerdict

SpecShift == InitShift /\ [][ClassifyDelay]_vars

(* ---------------- pushEventToBuffer at every capacity ---------------- *)
\* whether the eviction loop reaches removeFirst() (removeAt(0) on Android) on an empty
\* buffer: a trap in Swift, an IndexOutOfBoundsException in Kotlin
RECURSIVE EvictLoopFaults(_, _)
EvictLoopFaults(buf, bufferCapacity) ==
  IF Len(buf) >= bufferCapacity
  THEN IF buf = <<>> THEN TRUE ELSE EvictLoopFaults(Tail(buf), bufferCapacity)
  ELSE FALSE

\* pushEventToBuffer up to eventBuffer.append(event) on a buffer of len records: whether
\* it faulted, and the number of records it leaves in the buffer
PushOutcome(len, bufferCapacity) ==
  LET buf == [i \in 1..len |-> i]
  IN IF EvictLoopFaults(buf, bufferCapacity)
     THEN [faulted |-> TRUE, len |-> 0]
     ELSE [faulted |-> FALSE, len |-> Len(EvictLoop(buf, bufferCapacity)) + 1]

\* maxBufferSize values from -MaxProbeCapacity to MaxProbeCapacity (setup accepts any
\* number), each with the buffer lengths pushEventToBuffer can find under it
MaxProbeCapacity == 3

CapacityProbes ==
  {p \in [platform : {"ios", "android"},
          capacity : (-MaxProbeCapacity)..MaxProbeCapacity,
          len : 0..MaxProbeCapacity] : p.len <= Max(p.capacity, 0)}

InitCapacity ==
  /\ InitEngine(0, 0)
  /\ probe \in CapacityProbes
  /\ verdict = NoVerdict

\* one push under the probed capacity
PushProbe ==
  /\ verdict = NoVerdict
  /\ verdict' = PushOutcome(probe.len, probe.capacity)
  /\ UNCHANGED <<config, isRunning, eventSource, eventBuffer, isFlushPending,
                 backoffCounter, wasRunningBeforeHibernation, reconnectCount,
                 totalBytesReceived, lastErrorTime, lastErrorCode, lastProcessedId,
                 requests, created, stopped, ended, queue, timers, delivered, worker,
                 lastRead, pusher, eventsToEmit, objects, handles, lastCreate,
                 pushed, evicted, cleared, drainedUpTo, restartSrc, fatalSrc, haltedBy,
                 win, callsLeft, callbacksLeft, probe>>

SpecCapacity == InitCapacity /\ [][PushProbe]_vars

(* ======================= the claims ======================= *)
\* the step runs the block at the head of sseQueue
RunsHead == queue # <<>> /\ queue' = Tail(queue)

\* the records handed to the host so far, in order
Delivered == Flatten(delivered)

\* the engine state a transport block could touch
EngineState ==
  <<isRunning, eventSource, eventBuffer, isFlushPending, backoffCounter, reconnectCount,
    totalBytesReceived, created, stopped, timers, delivered, pushed>>

\* C1 (as stated): once restart() has executed, a callback block that originates from a
\* connection attempt older than the one restart() opened has no effect: it buffers
\* nothing, stops no transport and schedules no reconnect.
C1_StaleCallbackHasNoEffect ==
  [][(RunsHead /\ Head(queue).origin = "transport" /\ Head(queue).src < restartSrc)
       => UNCHANGED EngineState]_vars

\* C2 (as stated): a 400/401/403 error processed while running leaves the engine not
\* running with its transport closed; afterwards no reconnect timer scheduled before
\* or by that error opens an attempt, and only a host start()/restart() opens one.
C2_FatalStopsForGood ==
  [][/\ (RunsHead /\ Head(queue).op = "onError" /\ isRunning
           /\ Head(queue).status \in {400, 401, 403})
          => (~isRunning' /\ eventSource' = NoSource /\ eventSource \in stopped')
     /\ (RunsHead /\ Head(queue).op \in {"autoTimer", "fixedTimer"}
           /\ fatalSrc > 0 /\ Head(queue).src <= fatalSrc)
          => created' = created
     /\ (haltedBy = "fatal" /\ created' # created)
          => (RunsHead /\ Head(queue).op \in {"start", "restart"}
                /\ Head(queue).origin = "host")]_vars

\* C3 (as stated): when a Fatal error (400/401/403, or 429 without a usable hint) is
\* processed while running, its one Error record is delivered or still awaits delivery:
\* the stop that follows does not discard it.
C3_FatalErrorRecordSurvives ==
  [][(RunsHead /\ Head(queue).op = "onError" /\ isRunning
        /\ ErrorDecision(Head(queue).status, Head(queue).hint) \in {"Fatal", "RateLimited"})
       => /\ pushed' = pushed + 1
          /\ pushed' \in SeqsOf(Flatten(delivered')) \cup SeqsOf(eventBuffer')]_vars

\* ---- C4 ----
\* the class the priority list gives a status code and a Retry-After hint
C4_ClassOf(statusCode, hint) ==
  IF statusCode \in {400, 401, 403} THEN "Fatal"
  ELSE IF statusCode \in {429, 503} /\ hint # NoHint THEN "ServerBusy"
  ELSE IF statusCode = 429 THEN "Fatal"
  ELSE "Transient"

\* the class is the one of the priority list, and a ServerBusy delay is hint + jitter
\* with the jitter in [0.5 s, 2.0 s]
C4_ClassAndHintDelay ==
  /\ verdict.class = C4_ClassOf(probe.status, probe.hint)
  /\ verdict.class = "ServerBusy" =>
       /\ verdict.schedule = "retryAfter"
       /\ verdict.delayMs - probe.hint \in 500..2000

C5_StoppedUntilHostStarts ==
  [][(haltedBy = "stop" /\ created' # created)
       => (RunsHead /\ Head(queue).op \in {"start", "restart"}
             /\ Head(queue).origin = "host")]_vars

\* C8 (as stated): with batch interval > 0, the pushes made between a push that
\* schedules the flush timer and the firing of that timer (at most maxBufferSize of
\* them, nothing but pushes in between) reach the host in exactly one callback
\* invocation, made when that timer runs and holding all of them in push order.
C8_OneFlushPerWindow ==
  [][win.open =>
       /\ (win'.open /\ win'.first = win.first) => delivered' = delivered
       /\ (RunsHead /\ Head(queue) = FlushTimer /\ win.stale = 0)
            => /\ Len(delivered') = Len(delivered) + 1
               /\ SeqsOf(delivered'[Len(delivered')]) = win.first..pushed
               /\ \A i \in 1..Len(eventBuffer) :
                    delivered'[Len(delivered')][i].seq = win.first + i - 1]_vars

\* ---- C6 ----
\* a reconnect for attempt a has been scheduled and its block has not run yet
ReconnectPending(a) ==
  \/ \E t \in BagToSet(timers) : t.op \in {"autoTimer", "fixedTimer"} /\ t.src = a
  \/ \E i \in 1..Len(queue) : queue[i].op \in {"autoTimer", "fixedTimer"} /\ queue[i].src = a

\* the engine runs, the current attempt is the latest one, and a Transient error, a
\* ServerBusy error or a clean close of it has scheduled a reconnect
AwaitingReconnect ==
  isRunning /\ eventSource = created /\ ReconnectPending(created)

\* C6: if the engine is running and the current attempt has reported a Transient error, a
\* ServerBusy error or a clean close, then a new connection attempt is eventually opened,
\* unless a stop(), a Fatal error or a background signal leaves the engine not running:
\* the wait for the reconnect always ends, and it ends in no other way.
C6_ReconnectIsLive ==
  /\ AwaitingReconnect ~> ~AwaitingReconnect
  /\ [][(AwaitingReconnect /\ ~AwaitingReconnect') => (created' > created \/ ~isRunning')]_vars

\* a second attempt exists although the host made one call only: a reconnect timer opened it
C6_Witness ==
  isRunning /\ created >= 2 /\ eventSource = created /\ callsLeft = LiveCalls - 1

\* ---- C7 ----
\* C7: the buffer never holds more than maxBufferSize records, and the batch a flush
\* delivers is exactly the most recent min(k, maxBufferSize) of the k records pushed
\* since the buffer was last drained, in push order.
C7_DropOldest ==
  [][/\ Len(eventBuffer') <= config.maxBufferSize
     /\ delivered' # delivered =>
          LET batch == delivered'[Len(delivered')]
              k == pushed' - drainedUpTo
              m == Min(k, config.maxBufferSize)
          IN /\ delivered' = Append(delivered, batch)
             /\ Len(batch) = m
             /\ \A i \in 1..m : batch[i].seq = pushed' - m + i]_vars

\* a flush delivered a full batch after the eviction loop had dropped older records
C7_Witness ==
  /\ evicted # {}
  /\ \E i \in 1..Len(delivered) :
       /\ Len(delivered[i]) = config.maxBufferSize
       /\ delivered[i][1].seq - 1 \in evicted

\* ---- C9 ----
\* C9: with batch interval <= 0 every push is handed to the host at once in a batch of
\* exactly that record, the buffer is empty after every step and no flush timer is ever
\* scheduled.
C9_ImmediateFlush ==
  [][config.batchingIntervalMs <= 0 =>
       /\ pushed' # pushed =>
            /\ pushed' = pushed + 1
            /\ Len(delivered') = Len(delivered) + 1
            /\ Len(delivered'[Len(delivered')]) = 1
            /\ delivered'[Len(delivered')][1].seq = pushed'
       /\ eventBuffer' = <<>>
       /\ ~isFlushPending'
       /\ FlushTimersOutstanding([timers |-> timers', queue |-> queue']) = 0]_vars

\* with batch interval 0, two pushes have been delivered as two batches of one record
C9_Witness ==
  /\ config.batchingIntervalMs <= 0
  /\ pushed >= 2
  /\ Len(delivered) = pushed

\* ---- C10 ----
\* C10: every record is delivered at most once, the delivered batches taken together
\* are in push order, and every pushed record is delivered, still buffered, evicted by
\* the eviction loop or cleared by stopInternal, and only one of these.
C10_DeliveredOnceInOrder ==
  LET d == Delivered
  IN /\ \A i, j \in 1..Len(d) : i < j => d[i].seq < d[j].seq
     /\ 1..pushed = SeqsOf(d) \cup SeqsOf(eventBuffer) \cup evicted \cup cleared
     /\ SeqsOf(d) \cap (SeqsOf(eventBuffer) \cup evicted \cup cleared) = {}
     /\ SeqsOf(eventBuffer) \cap (evicted \cup cleared) = {}

\* a timer-driven flush and a manual flush have each delivered a batch, and a record
\* was lost to the eviction loop
C10_Witness ==
  /\ Len(delivered) >= 2
  /\ evicted # {}
  /\ callsLeft <= BufCalls - 2

\* ---- C11 ----
\* C11: a flush() leaves the buffer empty and the pending-flush flag cleared; on an empty
\* buffer it invokes no callback, on a non-empty one it hands over exactly the buffer;
\* the buffer is refilled by a push only, so a second flush() with no push in between
\* delivers nothing; and the host never receives an empty batch.
C11_FlushIsIdempotent ==
  [][/\ (RunsHead /\ Head(queue).op = "flush") =>
          /\ eventBuffer' = <<>>
          /\ ~isFlushPending'
          /\ delivered' = IF eventBuffer = <<>> THEN delivered
                                               ELSE Append(delivered, eventBuffer)
     /\ (eventBuffer' # eventBuffer /\ eventBuffer' # <<>>) => pushed' = pushed + 1
     /\ \A i \in 1..Len(delivered') : delivered'[i] # <<>>]_vars

\* one flush() has delivered the only record pushed, ahead of the flush timer, and a
\* second flush() is the next block to run
C11_Witness ==
  /\ config.batchingIntervalMs > 0
  /\ queue = <<HostBlock("flush")>>
  /\ callsLeft = BufCalls - 3
  /\ isRunning /\ ~wasRunningBeforeHibernation
  /\ pushed = 1 /\ Len(delivered) = 1 /\ cleared = {}
  /\ FlushTimersOutstanding(Cur) = 1

\* ---- C12 ----
\* C12: a start() block that runs while the engine is running changes nothing: no
\* attempt is opened and the backoff counter keeps its value; one that runs while the
\* engine is not running sets it running, resets the backoff counter to 0 and opens
\* exactly one attempt, which becomes the current one.
C12_StartOnlyWhenNotRunning ==
  [][(RunsHead /\ Head(queue).op = "start") =>
       IF isRunning
       THEN UNCHANGED EngineState
       ELSE /\ isRunning'
            /\ backoffCounter' = 0
            /\ created' = created + 1
            /\ eventSource' = created']_vars

\* both host calls made so far have run, the second one a start() on the running engine:
\* the only attempt is still the first, with a transient error counted and its
\* reconnect timer waiting
C12_Witness ==
  /\ callsLeft = CtlCalls - 2 /\ queue = <<>>
  /\ isRunning /\ created = 1 /\ eventSource = 1
  /\ backoffCounter = 1
  /\ \E tm \in BagToSet(timers) : tm.op = "autoTimer"

\* ---- C14 ----
\* C14: whatever the state a restart() block runs in, afterwards the engine is running
\* with exactly one newly opened attempt as the current one, the previous transport
\* stopped, the buffer empty and not delivered, the pending-flush flag cleared and the
\* backoff counter at 0.
C14_RestartIsStopThenOpen ==
  [][(RunsHead /\ Head(queue).op = "restart") =>
       /\ isRunning'
       /\ created' = created + 1
       /\ eventSource' = created'
       /\ eventSource # NoSource => eventSource \in stopped'
       /\ eventBuffer' = <<>>
       /\ delivered' = delivered
       /\ ~isFlushPending'
       /\ backoffCounter' = 0]_vars

\* a restart() has run on a hibernated engine and opened the current attempt
C14_Witness ==
  /\ wasRunningBeforeHibernation
  /\ isRunning /\ created >= 2
  /\ restartSrc = created /\ eventSource = created

\* ---- C13 ----
\* C13 (as stated): a stop(), in whatever state it is made and on either platform,
\* leaves the engine not running, the transport closed and unreferenced, the buffer
\* empty with nothing delivered from it, the pending-flush flag cleared and the backoff
\* counter at 0.
C13_StopResetsEverything ==
  [][((RunsHead /\ Head(queue).op = "stop") \/ AndroidStopCall) =>
       /\ ~isRunning'
       /\ eventSource' = NoSource
       /\ eventSource # NoSource => eventSource \in stopped'
       /\ eventBuffer' = <<>>
       /\ delivered' = delivered
       /\ ~isFlushPending'
       /\ backoffCounter' = 0]_vars

\* ---- C15 ----
\* the step opens a connection attempt
OpensAttempt == created' = created + 1 /\ Len(requests') = created'

\* the connection in flight and the attempts made so far
InFlight == <<isRunning, eventSource, created, stopped, requests, timers>>

\* C15: the stored id is whatever the latest processed setLastProcessedId gave and
\* nothing else changes it (no message, stop or restart); processing the call leaves the
\* connection in flight alone; and every attempt opened, by whichever path, carries
\* Last-Event-ID equal to the stored id, or no resume header when no id was set or the
\* id is empty. The requests already made never change.
C15_ResumeHeaderFollowsLastId ==
  [][/\ IF RunsHead /\ Head(queue).op = "setLastProcessedId"
        THEN lastProcessedId' = Head(queue).arg /\ UNCHANGED InFlight
        ELSE lastProcessedId' = lastProcessedId
     /\ created' # created =>
          /\ OpensAttempt
          /\ requests'[created'].lastEventId =
               IF lastProcessedId = NoId \/ lastProcessedId = ""
               THEN NoResumeHeader ELSE lastProcessedId
     /\ \A i \in 1..Len(requests) : requests'[i] = requests[i]]_vars

\* the host has called start() and setLastProcessedId("42") and nothing else: the first
\* attempt went out without a resume header, and the attempt a reconnect timer opened
\* after the id was stored carries Last-Event-ID: 42
C15_Witness ==
  /\ callsLeft = ReqCalls - 2
  /\ lastProcessedId = "42"
  /\ Len(requests) = 2
  /\ requests[1].lastEventId = NoResumeHeader
  /\ requests[2].lastEventId = "42"

\* ---- C16 ----
\* C16: processing updateHeaders(h) leaves the connection in flight alone and replaces
\* the configuration by one that differs in its headers only, which are h; nothing else
\* changes the configuration; and every attempt opened uses the headers configured at
\* that moment.
C16_UpdateHeadersOnlyHeaders ==
  [][/\ IF RunsHead /\ Head(queue).op = "updateHeaders"
        THEN /\ config' = [config EXCEPT !.headers = Head(queue).arg]
             /\ UNCHANGED InFlight
        ELSE config' = config
     /\ created' # created =>
          /\ OpensAttempt
          /\ requests'[created'].headers = config.headers]_vars

\* the first attempt used the headers given to setup, a later one those of an
\* updateHeaders processed in between
C16_Witness ==
  /\ Len(requests) >= 2
  /\ requests[1].headers = SetupHeaders
  /\ requests[Len(requests)].headers = "h1"
  /\ config.headers = "h1"

\* ---- C17 ----
\* C17 (as stated): every reconnect delay scheduled, on the exponential schedule, on the
\* idle schedule of a clean close or from a Retry-After hint plus jitter, is at least 2 s.
C17_EveryDelayAtLeastFloor ==
  (verdict # NoVerdict /\ verdict.schedule # "none") => verdict.delayMs >= SafeDelayFloorMs

\* ---- C18 ----
\* b = min(2 s * 2^n, 30 s), in ms
C18_Base(n) == Min(2000 * 2 ^ n, 30000)

\* C18: a Transient error processed by SseHandler.onError with backoff counter n
\* schedules a delay in [max(2 s, 0.5 b), 1.5 b] (so [2 s, 3 s] for n = 0 and
\* [15 s, 45 s] for n = 4), never above 45 s, and b does not decrease with n.
C18_ExponentialDelayRange ==
  (verdict # NoVerdict /\ probe.platform = "ios" /\ verdict.class = "Transient") =>
    LET n == probe.counter
        b == C18_Base(n)
    IN /\ verdict.delayMs >= Max(2000, b \div 2)
       /\ verdict.delayMs <= (3 * b) \div 2
       /\ verdict.delayMs <= 45000
       /\ n = 0 => verdict.delayMs \in 2000..3000
       /\ n = 4 => verdict.delayMs \in 15000..45000
       /\ C18_Base(n) <= C18_Base(n + 1)

\* a 500 processed with counter 4 and the largest jitter: the delay is 45 s
C18_Witness ==
  /\ probe.platform = "ios" /\ probe.status = 500 /\ probe.counter = 4
  /\ verdict.class = "Transient" /\ verdict.delayMs = 45000

\* ---- C19 ----
\* C19: a clean close processed by SseHandler.onClosed schedules a reconnect delay of
\* 3 s * (0.8 + r), r in [0, 0.4], within [2.4 s, 3.6 s], the same for every value of
\* the backoff counter, and leaves the counter as it was.
C19_IdleDelayIsFixed ==
  (verdict # NoVerdict /\ probe.platform = "ios" /\ probe.event = "close") =>
    /\ verdict.schedule = "idle"
    /\ verdict.delayMs \in 2400..3600
    /\ verdict.delayMs = IosCloseVerdict(0, probe.draw).delayMs
    /\ verdict.counter = probe.counter

\* a clean close after MaxProbeCounter failures, with the largest jitter: 3.6 s
C19_Witness ==
  /\ probe.platform = "ios" /\ probe.event = "close"
  /\ probe.counter = MaxProbeCounter
  /\ verdict.schedule = "idle" /\ verdict.delayMs = 3600

ResumeBlock == Block("start", NoSource, 0, NoHint, 0, "resume")

\* resume blocks waiting in sseQueue
ResumesQueued(q) == Cardinality({i \in 1..Len(q) : q[i] = ResumeBlock})

\* the step runs the block at the head of sseQueue, which may submit one block itself
RunsHeadMaySubmit ==
  /\ queue # <<>>
  /\ Len(queue') \in {Len(queue) - 1, Len(queue)}
  /\ SubSeq(queue', 1, Len(queue) - 1) = Tail(queue)

\* C21: the remembered flag is set by a background signal processed on a running engine
\* and cleared by a foreground signal, and by nothing else; a foreground signal calls
\* start() exactly when the flag is set, leaves it cleared and opens nothing itself, so a
\* second foreground signal calls nothing; nothing else calls that start(); and the
\* start() it called, run on an engine not running, opens one attempt with Last-Event-ID
\* equal to the lastProcessedId stored at that moment (no header for none or empty).
C21_ForegroundResumesOnce ==
  [][/\ (RunsHeadMaySubmit /\ Head(queue).op = "foreground") =>
          /\ ~wasRunningBeforeHibernation'
          /\ queue' = IF wasRunningBeforeHibernation
                      THEN Append(Tail(queue), ResumeBlock) ELSE Tail(queue)
          /\ UNCHANGED EngineState
     /\ wasRunningBeforeHibernation' # wasRunningBeforeHibernation =>
          /\ RunsHeadMaySubmit
          /\ Head(queue).op = IF wasRunningBeforeHibernation' THEN "background"
                                                              ELSE "foreground"
     /\ (RunsHead /\ Head(queue).op = "background") =>
          wasRunningBeforeHibernation' = (isRunning \/ wasRunningBeforeHibernation)
     /\ ResumesQueued(queue') > ResumesQueued(queue) =>
          (RunsHeadMaySubmit /\ Head(queue).op = "foreground")
     /\ (RunsHead /\ Head(queue) = ResumeBlock) =>
          IF isRunning
          THEN UNCHANGED EngineState
          ELSE /\ OpensAttempt
               /\ isRunning' /\ eventSource' = created'
               /\ requests'[created'].lastEventId =
                    IF lastProcessedId = NoId \/ lastProcessedId = ""
                    THEN NoResumeHeader ELSE lastProcessedId]_vars

\* start(), setLastProcessedId("42"), background, foreground and nothing else: the
\* attempt the resume opened carries Last-Event-ID: 42, the first one no resume header
C21_Witness ==
  /\ callsLeft = 0 /\ queue = <<>>
  /\ isRunning /\ ~wasRunningBeforeHibernation
  /\ Len(requests) = 2 /\ eventSource = 2
  /\ requests[1].lastEventId = NoResumeHeader
  /\ requests[2].lastEventId = "42"
  /\ lastProcessedId = "42"

\* ---- C22 ----
\* the fields getStats() reports
Stats == <<totalBytesReceived, reconnectCount, lastErrorTime, lastErrorCode>>

\* what an error processed on a stopped engine leaves alone
StatsBufferAndTimers == <<Stats, eventBuffer, isFlushPending, delivered, pushed, timers>>

\* the step counts one error with the given code
C22_Counted(code) ==
  /\ reconnectCount' = reconnectCount + 1
  /\ lastErrorTime' # NoTime /\ lastErrorTime' # lastErrorTime
  /\ lastErrorCode' = code

CallsSetup == \E newConfig \in Configs : HostSetup(newConfig)

\* C23 (as stated): a call of setup leaves cumulative bytes and reconnect count at 0 and
\* the last error time and code cleared; no other step lowers either counter.
C23_SetupResetsStats ==
  [][IF CallsSetup
     THEN /\ totalBytesReceived' = 0
          /\ reconnectCount' = 0
          /\ lastErrorTime' = NoTime
          /\ lastErrorCode' = NoErrorCode
     ELSE /\ totalBytesReceived' >= totalBytesReceived
          /\ reconnectCount' >= reconnectCount]_vars

\* ---- C24 ----
\* C24 (as stated): every getStats() and isConnected() returns, from whichever thread it
\* is called, the delivery callback running on sseQueue included, and what it returns is
\* the engine's stats (its running flag) at that moment.
C24_SyncReadsAlwaysReturn ==
  [][lastRead' # lastRead =>
       /\ lastRead'.returned
       /\ lastRead'.value =
            IF lastRead'.op = "getStats"
            THEN [totalBytesReceived |-> totalBytesReceived',
                  reconnectCount |-> reconnectCount',
                  lastErrorTime |-> lastErrorTime', lastErrorCode |-> lastErrorCode']
            ELSE [isRunning |-> isRunning']]_vars

\* ---- C25 ----
\* C25 (as stated): the push of a message that brings the number of buffered records to
\* maxBufferSize forces a flush: the buffer, the pushed record included, is handed to the
\* host in one batch and left empty.
C25_FullBufferForcesFlush ==
  [][(RunsHead /\ Head(queue).op = "onMessage"
        /\ Len(eventBuffer) + 1 >= config.maxBufferSize) =>
       /\ Len(delivered') = Len(delivered) + 1
       /\ SeqsOf(delivered'[Len(delivered')]) = SeqsOf(eventBuffer) \cup {pushed'}
       /\ eventBuffer' = <<>>]_vars

\* ---- C26 ----
\* C26 (as stated): on Android a start() made while the engine is running opens no second
\* connection: whatever start() calls are made, at most one EventSource is live.
C26_AndroidAtMostOneLive ==
  Cardinality(AndroidLive(Cur)) <= 1

\* ---- C27 ----
\* the step is a listener callback of the EventSource instance source
AndroidCallbackOf(source) ==
  \/ AndroidOnOpen(source)
  \/ AndroidOnEvent(source)
  \/ \E f \in AndroidFailures : AndroidOnFailure(source, f)
  \/ AndroidOnClosed(source)

\* C27 (as stated): on Android a listener callback of an instance that is not the
\* current eventSource buffers and delivers nothing, changes no stats and no backoff
\* state and schedules no reconnect. Stated for the states in which at most one
\* instance is live, where the only callback a stale instance makes is the failure its
\* cancellation reports.
C27_AndroidStaleCallbackIgnored ==
  [][\A source \in 1..created :
       (source # eventSource /\ Cardinality(AndroidLive(Cur)) <= 1
          /\ AndroidCallbackOf(source)) =>
         UNCHANGED <<Stats, eventBuffer, isFlushPending, delivered, pushed,
                     backoffCounter, isRunning, eventSource, queue, timers>>]_vars

\* ---- C28 ----
\* handles whose engine a step changes
HandlesChanged ==
  {h \in 1..Len(handles) : objects'[handles'[h]] # objects[handles[h]]}

C29_FactoryReturnsOrThrows ==
  [][(\E outcome \in FactoryOutcomes(Len(objects) + 1) : CreateNitroSse(outcome)) =>
       LET c == lastCreate'
       IN IF c.outcome.kind = "object"
          THEN /\ c.returned = c.outcome.ref /\ c.thrown = <<>> /\ c.logged = <<>>
               /\ handles' = Append(handles, c.outcome.ref)
               /\ objects'[c.returned] = NewObject
          ELSE /\ c.returned = NoObject
               /\ c.logged =
                    <<"Native NitroSse not found. This might be a test environment or web.">>
               /\ c.thrown # <<>>
               /\ c.thrown[1] = "NitroSse: Native module not found"
               /\ c.thrown # <<c.outcome.detail>>
               /\ handles' = handles /\ objects' = objects]_vars

\* createHybridObject threw 'Test Error' after one engine had been handed out and
\* started: the host got the not-found Error and no second handle
C29_Witness ==
  /\ lastCreate.called /\ lastCreate.outcome.kind = "throws"
  /\ lastCreate.thrown = NotFoundMessage
  /\ Len(handles) = 1 /\ ObjectOf(1).isRunning

\* ---- C30 ----
\* C30: a reconnect timer block (scheduled by scheduleAutomaticReconnect for a Transient
\* error or a clean close, or by scheduleAutomaticReconnectWithFixedDelay for a
\* ServerBusy delay) opens a connection attempt only if the engine is running and the
\* attempt that was current when the timer was scheduled is still the current one;
\* otherwise the block changes nothing.
C30_ReconnectTimerOnlyForItsAttempt ==
  [][RunsHead /\ Head(queue).op \in {"autoTimer", "fixedTimer"} =>
       IF isRunning /\ Head(queue).src = eventSource
       THEN created' = created + 1
       ELSE /\ created' = created /\ eventSource' = eventSource
            /\ requests' = requests /\ isRunning' = isRunning]_vars

\* ---- C31 ----
\* the class of an error as the statement names it, from its status and Retry-After hint
C31_Class(status, hint) ==
  IF status \in {400, 401, 403} THEN "Fatal"
  ELSE IF status \in {429, 503} /\ hint # NoHint THEN "ServerBusy"
  ELSE IF status = 429 THEN "Fatal"
  ELSE "Transient"

\* C31: a block run by the queue leaves backoffCounter at 0 if it is an onOpened, a
\* start() on an engine not running, a stop(), a restart() or a Fatal error on a running
\* engine (by its stop); it adds exactly 1 if it is a Transient error on a running engine;
\* every other block (a clean close, a ServerBusy error, an error on an engine not
\* running, a message, a heartbeat, flush, setLastProcessedId, updateHeaders, background,
\* foreground, a reconnect timer) and every step that only submits a block leaves it as
\* it was.
C31_BackoffCounterWrites ==
  [][IF RunsHeadMaySubmit
     THEN LET b == Head(queue)
          IN backoffCounter' =
               CASE b.op = "onOpened" -> 0
                 [] b.op = "start" /\ ~isRunning -> 0
                 [] b.op \in {"stop", "restart"} -> 0
                 [] b.op = "onError" /\ isRunning
                      /\ C31_Class(b.status, b.hint) = "Transient" -> backoffCounter + 1
                 [] b.op = "onError" /\ isRunning
                      /\ C31_Class(b.status, b.hint) = "Fatal" -> 0
                 [] OTHER -> backoffCounter
     ELSE backoffCounter' = backoffCounter]_vars

\* two Transient errors in a row were counted: the second attempt, opened by the
\* reconnect timer of the first error, failed as well
C31_Witness ==
  isRunning /\ backoffCounter = 2 /\ created = 2 /\ reconnectCount = 2

\* ---- C32 ----
\* C32: at most one flush timer is scheduled and still waiting for its deadline, in
\* every reachable state.
C32_AtMostOneFlushTimer == CopiesIn(FlushTimer, timers) <= 1

\* ---- C33 ----
\* C33: in every reachable state at most one transport instance the engine created has
\* not been stopped by the engine.
C33_AtMostOneTransportAlive ==
  Cardinality({a \in 1..created : a \notin stopped}) <= 1

\* ---- C34 ----
\* C34: from the execution of stop() until a start() or restart() executes, no step
\* pushes a record into the buffer and no step invokes the host delivery callback.
C34_QuietAfterStop ==
  [][(haltedBy = "stop" /\ haltedBy' = "stop")
       => (pushed' = pushed /\ delivered' = delivered)]_vars

\* ---- C35 ----
\* C35: with a batch interval > 0, whenever the buffer is non-empty a flush timer is
\* outstanding, isFlushPending is true only while a flush timer is outstanding, and
\* every record in the buffer is eventually delivered, evicted or cleared.
C35_NeverStranded ==
  /\ [](eventBuffer # <<>> => FlushTimersOutstanding(Cur) >= 1)
  /\ [](isFlushPending => FlushTimersOutstanding(Cur) >= 1)
  /\ \A q \in 1..(PendCallbacks + 1) :
       (q \in SeqsOf(eventBuffer))
         ~> (q \in SeqsOf(Delivered) \cup evicted \cup cleared)

\* a record waits in the buffer with two flush timers outstanding: the flag was cleared
\* under the first timer and the push after that scheduled the second
C35_Witness ==
  /\ config.batchingIntervalMs > 0
  /\ eventBuffer # <<>> /\ isFlushPending
  /\ FlushTimersOutstanding(Cur) = 2

\* ---- C36 ----
\* C36: on Android with a batching interval > 0, isFlushPending is true only while a
\* flush task is queued on the handler, and so a non-empty buffer always has a flush
\* task queued that will deliver it.
C36_AndroidPendingHasTask ==
  config.batchingIntervalMs > 0 =>
    /\ isFlushPending => FlushTimersOutstanding(Cur) >= 1
    /\ eventBuffer # <<>> => FlushTimersOutstanding(Cur) >= 1

\* ---- C37 ----
\* C37: on Android, with no pushEventToBuffer and no flushBufferToJs in progress, the
\* buffer is never non-empty while isFlushPending is false and no flush task is queued.
C37_AndroidNoLostFlush ==
  (pusher = "idle" /\ worker = "idle")
    => ~(eventBuffer # <<>> /\ ~isFlushPending /\ FlushTimersOutstanding(Cur) = 0)

\* ---- C38 ----
\* C38: isConnected() called from a thread of the host returns the running flag, and the
\* running flag becomes true only by a start() or restart() block and false only by a
\* stop() block, a Fatal error (400/401/403, or 429 without a Retry-After hint) or a
\* background signal; an open, a close, a Transient or ServerBusy error and a reconnect
\* timer leave it as it is.
C38_IsConnectedIsRunning ==
  [][/\ (lastRead' # lastRead /\ lastRead'.op = "isConnected") =>
          (lastRead'.returned /\ lastRead'.value = [isRunning |-> isRunning])
     /\ (~isRunning /\ isRunning') =>
          (RunsHead /\ Head(queue).op \in {"start", "restart"})
     /\ (isRunning /\ ~isRunning') =>
          /\ RunsHead
          /\ \/ Head(queue).op \in {"stop", "background"}
             \/ /\ Head(queue).op = "onError"
                /\ C31_Class(Head(queue).status, Head(queue).hint) = "Fatal"
     /\ (RunsHead /\ Head(queue).op \in {"start", "restart"}) => isRunning'
     /\ (RunsHead /\ Head(queue).op \in {"stop", "background"}) => ~isRunning'
     /\ (RunsHead /\ Head(queue).op = "onError" /\ isRunning
           /\ C31_Class(Head(queue).status, Head(queue).hint) = "Fatal") => ~isRunning']_vars

\* isConnected() returned true while the engine waited on a reconnect timer, the failed
\* attempt never having opened
C38_Witness ==
  /\ lastRead = [op |-> "isConnected", returned |-> TRUE, value |-> [isRunning |-> TRUE]]
  /\ isRunning /\ ReconnectPending(created) /\ eventSource \in stopped
  /\ delivered # <<>>

\* ---- C39 ----
\* C39: on Android, for every backoff counter n >= 4 at which a handshake failure is
\* handled, the pre-jitter base min(2000 * (1 shl n), 30000) is 30000 ms and the delay
\* scheduled lies within [15000 ms, 45000 ms].
C39_AndroidBackoffStaysAtCap ==
  (verdict # NoVerdict /\ probe.platform = "android" /\ probe.counter >= 4
     /\ verdict.schedule = "exponential")
    => /\ AndroidBackoffBase(probe.counter) = MaxBackoffDelayMs
       /\ verdict.delayMs >= 15000
       /\ verdict.delayMs <= 45000

\* ---- C40 ----
\* C40: for every configured maxBufferSize, 0 and negative values included, a push
\* completes without fault (the eviction loop never removes from an empty buffer) and
\* leaves at most maxBufferSize records in the buffer.
C40_PushNeverFaults ==
  verdict # NoVerdict => (~verdict.faulted /\ verdict.len <= probe.capacity)

====
